---- MODULE Spec2Model ----
(***************************************************************************)
(* Model of TextPseudonymizer (src/pseudonymizer_simple.py): the           *)
(* replacement registry (correspondences + per-type counters), the         *)
(* span-rewriting loop of pseudonymize and the regex pattern scanner.      *)
(*                                                                         *)
(* A Python str is a sequence of one-character strings, so that slicing,   *)
(* lower-casing, formatting and regex matching are computed character by   *)
(* character as the interpreter does.                                      *)
(***************************************************************************)
EXTENDS Integers, Sequences, FiniteSets, TLC

(***************************************************************************)
(* Bounds of the model.                                                    *)
(***************************************************************************)
\* pseudonymize calls made on one TextPseudonymizer
MaxCalls == 2
\* entities the detector returns for one text
MaxEnts == 2
\* generate_training_data calls made on one DataGenerator
MaxGenerations == 1
\* the largest num_samples asked for
MaxSamples == 2
\* names held by one pool of the DataGenerator
MaxPool == 2
\* spans collected for one example (a kind-pass is not followed beyond)
MaxSpans == 4
\* further generate_training_data calls, each made right after a return
MaxRegenerations == 1
\* the largest num_samples asked for in such a further call
MaxResamples == 1
\* load calls that fail on one DataGenerator
MaxFailedLoads == 1

(***************************************************************************)
(* Python str primitives.                                                  *)
(***************************************************************************)
UPPER == <<"A","B","C","D","E","F","G","H","I","J","K","L","M",
           "N","O","P","Q","R","S","T","U","V","W","X","Y","Z">>
LOWER == <<"a","b","c","d","e","f","g","h","i","j","k","l","m",
           "n","o","p","q","r","s","t","u","v","w","x","y","z">>
DIGITS == <<"0","1","2","3","4","5","6","7","8","9">>

Range(s) == {s[k] : k \in DOMAIN s}

UpperChars == Range(UPPER)
LowerChars == Range(LOWER)
DigitChars == Range(DIGITS)

\* str.lower() on one character (ASCII letters; every other character
\* of the model's texts is left as it is)
LowerChar(c) ==
    IF c \in UpperChars
    THEN LOWER[CHOOSE k \in DOMAIN UPPER : UPPER[k] = c]
    ELSE c

\* str.lower()
Lower(s) == [k \in DOMAIN s |-> LowerChar(s[k])]

\* format of an int inside an f-string: its decimal digits
RECURSIVE Str(_)
Str(n) ==
    IF n < 0 THEN <<"-">> \o Str(-n)
    ELSE IF n < 10 THEN <<DIGITS[n + 1]>>
    ELSE Str(n \div 10) \o <<DIGITS[(n % 10) + 1]>>

Min(a, b) == IF a < b THEN a ELSE b
Max(a, b) == IF a > b THEN a ELSE b

\* a slice bound as Python normalises it: a negative bound counts from
\* the end, and the result is clamped to 0..len
SliceBound(len, b) ==
    IF b < 0 THEN Max(len + b, 0) ELSE Min(b, len)

\* s[lo:hi]
PySlice(s, lo, hi) ==
    LET a == SliceBound(Len(s), lo)
        b == SliceBound(Len(s), hi)
    IN  IF a >= b THEN <<>> ELSE SubSeq(s, a + 1, b)

\* s[:hi]
SliceTo(s, hi) == PySlice(s, 0, hi)

\* s[lo:]
SliceFrom(s, lo) == PySlice(s, lo, Len(s))

\* ch * n
RECURSIVE Repeat(_, _)
Repeat(ch, n) == IF n <= 0 THEN <<>> ELSE ch \o Repeat(ch, n - 1)

(***************************************************************************)
(* Entity types and detector labels.                                       *)
(***************************************************************************)
PERSONNE == <<"P","E","R","S","O","N","N","E">>
ORGANISATION == <<"O","R","G","A","N","I","S","A","T","I","O","N">>
LIEU == <<"L","I","E","U">>
DATE == <<"D","A","T","E">>
EMAIL == <<"E","M","A","I","L">>
TELEPHONE == <<"T","E","L","E","P","H","O","N","E">>

L_PERSON == <<"P","E","R","S","O","N">>
L_PER == <<"P","E","R">>
L_ORG == <<"O","R","G">>
L_GPE == <<"G","P","E">>
L_LOC == <<"L","O","C">>
L_TIME == <<"T","I","M","E">>
L_MISC == <<"M","I","S","C">>

\* faulty variant of entity_mapping: a label the table does not know is taken for a person
entity_mapping_UnknownAsPerson(label) ==
    IF label \in {L_ORG} THEN ORGANISATION
    ELSE IF label \in {L_GPE, L_LOC} THEN LIEU
    ELSE IF label \in {DATE, L_TIME} THEN DATE
    ELSE PERSONNE

\* self.entity_mapping.get(label, label)
entity_mapping(label) ==
    CASE label = L_PERSON -> PERSONNE
      [] label = L_PER -> PERSONNE
      [] label = L_ORG -> ORGANISATION
      [] label = L_GPE -> LIEU
      [] label = L_LOC -> LIEU
      [] label = DATE -> DATE
      [] label = L_TIME -> DATE
      [] OTHER -> label

(***************************************************************************)
(* The registry: correspondences (key -> pseudonym) and the counters.      *)
(***************************************************************************)
CounterNames == {"person_counter", "org_counter", "location_counter",
                 "date_counter", "email_counter", "phone_counter"}

\* faulty variant of RegistryKey: the key built without lower-casing the text
RegistryKey_CaseSensitive(entity_type, original_text) ==
    entity_type \o <<"_">> \o original_text

\* key = f"{entity_type}_{original_text.lower()}"
RegistryKey(entity_type, original_text) ==
    entity_type \o <<"_">> \o Lower(original_text)

\* the counter a type draws from ("" for a type that has none)
CounterOf(entity_type) ==
    CASE entity_type = PERSONNE -> "person_counter"
      [] entity_type = ORGANISATION -> "org_counter"
      [] entity_type = LIEU -> "location_counter"
      [] entity_type = DATE -> "date_counter"
      [] entity_type = EMAIL -> "email_counter"
      [] entity_type = TELEPHONE -> "phone_counter"
      [] OTHER -> ""

\* the pseudonym built from counter value n in consistent mode
CounterPseudonym(entity_type, n) ==
    CASE entity_type = PERSONNE -> PERSONNE \o <<"_">> \o Str(n)
      [] entity_type = ORGANISATION -> ORGANISATION \o <<"_">> \o Str(n)
      [] entity_type = LIEU -> LIEU \o <<"_">> \o Str(n)
      [] entity_type = DATE -> DATE \o <<"_">> \o Str(n)
      [] entity_type = EMAIL ->
            <<"e","m","a","i","l">> \o Str(n)
               \o <<"@","e","x","e","m","p","l","e",".","c","o","m">>
      [] entity_type = TELEPHONE ->
            <<"0">> \o Str(n)
               \o <<".","X","X",".","X","X",".","X","X",".","X","X">>

\* f"[{entity_type}]"
PlaceholderPseudonym(entity_type) == <<"[">> \o entity_type \o <<"]">>

\* the else branch: replacement_char repeated
FallbackPseudonym(original_text, config) ==
    IF config.preserve_length
    THEN Repeat(config.replacement_char, Len(original_text))
    ELSE Repeat(config.replacement_char, 3)

\* the replacement computed for a key that has no entry yet
NewReplacement(original_text, entity_type, config, counters) ==
    IF config.use_placeholders THEN PlaceholderPseudonym(entity_type)
    ELSE IF CounterOf(entity_type) # ""
    THEN CounterPseudonym(entity_type, counters[CounterOf(entity_type)])
    ELSE FallbackPseudonym(original_text, config)

\* faulty variant of NewCounters: the counter advances in placeholder mode too
NewCounters_AlwaysIncrement(entity_type, config, counters) ==
    IF CounterOf(entity_type) # ""
    THEN [counters EXCEPT ![CounterOf(entity_type)] = @ + 1]
    ELSE counters

\* faulty variant of NewCounters: the counter is read and never incremented
NewCounters_NoIncrement(entity_type, config, counters) == counters

\* the counters after the replacement for a new key was computed
NewCounters(entity_type, config, counters) ==
    IF ~config.use_placeholders /\ CounterOf(entity_type) # ""
    THEN [counters EXCEPT ![CounterOf(entity_type)] = @ + 1]
    ELSE counters

\* faulty variant of StoreEntry: the dict is replaced by one holding the new entry
StoreEntry_Replace(corr, key, replacement) == (key :> replacement)

\* faulty variant of StoreEntry: the new entry is not stored
StoreEntry_Skip(corr, key, replacement) == corr

\* self.correspondences[key] = replacement
StoreEntry(corr, key, replacement) == (key :> replacement) @@ corr

\* faulty variant of KnownKey: an entry is looked up under the mode of the
\* running call, so an entry of the other mode is not found
KnownKey_PerMode(corr, key, config) ==
    /\ key \in DOMAIN corr
    /\ config.use_placeholders <=> (Head(corr[key]) = "[")

\* if key in self.correspondences
KnownKey(corr, key, config) == key \in DOMAIN corr

\* _generate_consistent_replacement on registry reg = [corr, cnt, calls]:
\* the registry after the call, with the call appended to reg.calls and
\* the returned pseudonym in .replacement
generate_consistent_replacement(reg, original_text, entity_type, config) ==
    LET key == RegistryKey(entity_type, original_text)
        known == KnownKey(reg.corr, key, config)
        replacement ==
            IF known THEN reg.corr[key]
            ELSE NewReplacement(original_text, entity_type, config, reg.cnt)
        num == IF ~known /\ ~config.use_placeholders
                  /\ CounterOf(entity_type) # ""
               THEN reg.cnt[CounterOf(entity_type)] ELSE 0
    IN  [corr |-> IF known THEN reg.corr
                  ELSE StoreEntry(reg.corr, key, replacement),
         cnt |-> IF known THEN reg.cnt
                 ELSE NewCounters(entity_type, config, reg.cnt),
         calls |-> reg.calls \cup
                     {[etype |-> entity_type, original |-> original_text,
                       placeholders |-> config.use_placeholders,
                       fresh |-> ~known, num |-> num,
                       result |-> replacement]},
         replacement |-> replacement]

\* the registry part of a resolve call's result
RegOf(r) == [corr |-> r.corr, cnt |-> r.cnt, calls |-> r.calls]

(***************************************************************************)
(* The pattern scanner: the two compiled patterns, matched as re does      *)
(* (leftmost match, greedy quantifiers with backtracking), and re.sub.     *)
(* Positions are 0-based, ends exclusive; -1 means no match.               *)
(***************************************************************************)
\* \w
IsWordChar(c) == c \in UpperChars \cup LowerChars \cup DigitChars \cup {"_"}

\* \b at position p of s
WordBoundary(s, p) ==
    LET before == p > 0 /\ IsWordChar(s[p])
        after == p < Len(s) /\ IsWordChar(s[p + 1])
    IN  before # after

\* [A-Za-z0-9._%+-]
EmailLocalChars ==
    UpperChars \cup LowerChars \cup DigitChars \cup {".", "_", "%", "+", "-"}
\* [A-Za-z0-9.-]
EmailDomainChars == UpperChars \cup LowerChars \cup DigitChars \cup {".", "-"}
\* [A-Z|a-z]
EmailTldChars == UpperChars \cup LowerChars \cup {"|"}
\* [1-9]
NonZeroDigits == DigitChars \ {"0"}
\* [.\-\s]
PhoneSeparators == {".", "-", " ", "\t", "\n", "\r", "\f"}

\* length of the longest run of characters of class cls starting at p
RECURSIVE RunLen(_, _, _)
RunLen(s, p, cls) ==
    IF p < Len(s) /\ s[p + 1] \in cls THEN 1 + RunLen(s, p + 1, cls) ELSE 0

SetMax(S) == CHOOSE x \in S : \A y \in S : y <= x
SetMin(S) == CHOOSE x \in S : \A y \in S : x <= y

\* the end of the longest top-level part [A-Z|a-z]{2,} starting at t0
\* that is followed by \b, or -1
EmailTldEnd(s, t0) ==
    LET ends == {t0 + u : u \in {v \in 2..RunLen(s, t0, EmailTldChars) :
                                    WordBoundary(s, t0 + v)}}
    IN  IF ends = {} THEN -1 ELSE SetMax(ends)

\* the domain [A-Za-z0-9.-]+ starts at d0 and its longest run has dmax
\* characters: the end of the match for the longest domain that is
\* followed by "\." and a top-level part, or -1
EmailDomainEnd(s, d0, dmax) ==
    LET doms == {m \in 1..(dmax - 1) :
                    s[d0 + m + 1] = "." /\ EmailTldEnd(s, d0 + m + 1) >= 0}
    IN  IF doms = {} THEN -1 ELSE EmailTldEnd(s, d0 + SetMax(doms) + 1)

\* self.email_pattern matched at p:
\*   \b[A-Za-z0-9._%+-]+@[A-Za-z0-9.-]+\.[A-Z|a-z]{2,}\b
\* the local part is the whole run up to "@" ("@" is not in its class);
\* the domain is tried longest first, and for each domain the top-level
\* part longest first, until "\." and the closing \b both match
EmailMatchEnd(s, p) ==
    IF ~(p < Len(s) /\ s[p + 1] \in EmailLocalChars /\ WordBoundary(s, p))
    THEN -1
    ELSE CHOOSE e \in
           {IF at < Len(s) /\ s[at + 1] = "@"
            THEN EmailDomainEnd(s, at + 1, RunLen(s, at + 1, EmailDomainChars))
            ELSE -1 :
            at \in {p + RunLen(s, p, EmailLocalChars)}} : TRUE

\* one (?:[.\-\s]?\d{2}) group at q: the position after it, or -1
PhoneGroupEnd(s, q) ==
    LET TwoDigits(j) ==
            j + 2 <= Len(s) /\ s[j + 1] \in DigitChars /\ s[j + 2] \in DigitChars
    IN  IF q < 0 THEN -1
        ELSE IF q < Len(s) /\ s[q + 1] \in PhoneSeparators /\ TwoDigits(q + 1)
        THEN q + 3
        ELSE IF TwoDigits(q) THEN q + 2
        ELSE -1

\* self.phone_pattern matched at p: (?:\+33|0)[1-9](?:[.\-\s]?\d{2}){4}
PhoneMatchEnd(s, p) ==
    LET q0 == IF p + 3 <= Len(s) /\ SubSeq(s, p + 1, p + 3) = <<"+", "3", "3">>
              THEN p + 3
              ELSE IF p < Len(s) /\ s[p + 1] = "0" THEN p + 1
              ELSE -1
        q1 == IF q0 >= 0 /\ q0 < Len(s) /\ s[q0 + 1] \in NonZeroDigits
              THEN q0 + 1 ELSE -1
    IN  PhoneGroupEnd(s, PhoneGroupEnd(s, PhoneGroupEnd(s, PhoneGroupEnd(s, q1))))

\* the pattern of a kind matched at p
MatchEnd(kind, s, p) ==
    IF kind = EMAIL THEN EmailMatchEnd(s, p) ELSE PhoneMatchEnd(s, p)

\* the argument the substitution callback passes to resolve: match.group()
MatchGroup(s, p, e) == SubSeq(s, p + 1, e)

\* the leftmost position >= pos at which the pattern of kind matches
RECURSIVE FirstMatch(_, _, _)
FirstMatch(kind, s, pos) ==
    IF pos >= Len(s) THEN -1
    ELSE IF MatchEnd(kind, s, pos) >= 0 THEN pos
    ELSE FirstMatch(kind, s, pos + 1)

\* pattern.sub(replace, s) from position pos on, out being the output
\* built so far: every leftmost non-overlapping match is replaced by the
\* pseudonym resolve returns for it, the callbacks running in scan order
\* on registry reg
RECURSIVE RegexSub(_, _, _, _, _, _)
RegexSub(kind, s, pos, out, reg, config) ==
    \* each \E binds one value, computed once
    CHOOSE res \in
      UNION {
        IF p < 0
        THEN {[text |-> out \o SliceFrom(s, pos), reg |-> reg]}
        ELSE UNION {
               {RegexSub(kind, s, r.match_end,
                         out \o SubSeq(s, pos + 1, p) \o r.replacement,
                         RegOf(r), config)} :
               r \in UNION {
                   {[match_end |-> e] @@
                    generate_consistent_replacement(
                        reg, MatchGroup(s, p, e), kind, config)} :
                   e \in {MatchEnd(kind, s, p)}}} :
        p \in {FirstMatch(kind, s, pos)}} : TRUE

\* faulty variant of regex_emails: the matches are resolved on a registry of their own
regex_emails_PrivateRegistry(s, reg, config) ==
    IF config.mask_emails
    THEN CHOOSE out \in
           {[text |-> r.text, reg |-> [reg EXCEPT !.calls = r.reg.calls]] :
            r \in {RegexSub(EMAIL, s, 0, <<>>,
                            [corr |-> [k \in {} |-> <<>>],
                             cnt |-> [c \in CounterNames |-> 1],
                             calls |-> reg.calls],
                            config)}} : TRUE
    ELSE [text |-> s, reg |-> reg]

\* _pseudonymize_regex_patterns, the email pass:
\*   if config.mask_emails: text = self.email_pattern.sub(replace_email, text)
regex_emails(s, reg, config) ==
    IF config.mask_emails
    THEN RegexSub(EMAIL, s, 0, <<>>, reg, config)
    ELSE [text |-> s, reg |-> reg]

\* _pseudonymize_regex_patterns, the phone pass:
\*   if config.mask_phones: text = self.phone_pattern.sub(replace_phone, text)
regex_phones(s, reg, config) ==
    IF config.mask_phones
    THEN RegexSub(TELEPHONE, s, 0, <<>>, reg, config)
    ELSE [text |-> s, reg |-> reg]

(***************************************************************************)
(* Inputs: the texts, what the detector may return for each, the configs.  *)
(***************************************************************************)
\* "Jean Dupont contacte Jean Dupont."
TextScenario == <<"J","e","a","n"," ","D","u","p","o","n","t"," ","c","o","n","t","a","c","t","e"," ","J","e","a","n"," ","D","u","p","o","n","t",".">>
\* "Anne a@b.fr 0612345678 ANNE"
TextContact == <<"A","n","n","e"," ","a","@","b",".","f","r"," ","0","6","1","2","3","4","5","6","7","8"," ","A","N","N","E">>
\* "Paris 12 janvier"
TextDate == <<"P","a","r","i","s"," ","1","2"," ","j","a","n","v","i","e","r">>
\* "C@d.fr c@D.FR 07-12-34-56-78"
TextMail == <<"C","@","d",".","f","r"," ","c","@","D",".","F","R"," ","0","7","-","1","2","-","3","4","-","5","6","-","7","8">>

Texts == {TextScenario, TextContact, TextDate, TextMail}

Span(s, e, l) == [start_char |-> s, end_char |-> e, label_ |-> l]

\* the spans the detector may report on a text: each has
\* 0 <= start_char < end_char <= len(text); nothing orders them or keeps
\* them apart
DetectorSpans(t) ==
    CASE t = TextScenario ->
            {Span(0, 11, L_PER), Span(21, 32, L_PERSON), Span(22, 33, L_PER)}
      [] t = TextContact ->
            {Span(0, 4, L_PER), Span(23, 27, L_PER), Span(5, 11, L_ORG)}
      [] t = TextDate ->
            {Span(0, 5, L_LOC), Span(6, 16, L_TIME), Span(0, 5, L_MISC)}
      [] t = TextMail ->
            {Span(0, 6, L_ORG), Span(7, 13, L_GPE), Span(14, 28, DATE)}

\* doc.ents: any sequence of at most MaxEnts different spans
Docs(t) ==
    {es \in UNION {[1..n -> DetectorSpans(t)] : n \in 0..MaxEnts} :
        \A a, b \in DOMAIN es : a # b => es[a] # es[b]}

\* ent.text
EntText(t, ent) == PySlice(t, ent.start_char, ent.end_char)

MaskFlags == {"mask_persons", "mask_orgs", "mask_locations", "mask_dates",
              "mask_emails", "mask_phones"}

\* PseudonymizationConfig as process_file builds it from the six check
\* boxes and the replacement mode, the other fields keeping their
\* defaults: every box ticked in either mode, or one box cleared in
\* consistent mode
Configs ==
    {c \in [mask_persons : BOOLEAN, mask_orgs : BOOLEAN,
            mask_locations : BOOLEAN, mask_dates : BOOLEAN,
            mask_emails : BOOLEAN, mask_phones : BOOLEAN,
            replacement_char : {<<"X">>}, preserve_length : {TRUE},
            use_placeholders : BOOLEAN] :
        /\ \A f, g \in MaskFlags : f # g => c[f] \/ c[g]
        /\ c.use_placeholders => \A f \in MaskFlags : c[f]}

(***************************************************************************)
(* The training-data generator (DataGenerator): str.find, str.replace and  *)
(* list.sort as Python computes them, the template and directory files,    *)
(* and the generator's state.                                              *)
(***************************************************************************)
\* s.find(sub): the lowest 0-based index >= p at which sub occurs, or -1
RECURSIVE FindFrom(_, _, _)
FindFrom(s, sub, p) ==
    IF p + Len(sub) > Len(s) THEN -1
    ELSE IF SubSeq(s, p + 1, p + Len(sub)) = sub THEN p
    ELSE FindFrom(s, sub, p + 1)

Find(s, sub) == FindFrom(s, sub, 0)

\* sub in s
Contains(s, sub) == Find(s, sub) # -1

\* s.replace(sub, value, 1)
ReplaceFirst(s, sub, value) ==
    CHOOSE out \in
      {IF p = -1 THEN s
       ELSE SubSeq(s, 1, p) \o value \o SubSeq(s, p + Len(sub) + 1, Len(s)) :
       p \in {Find(s, sub)}} : TRUE

\* the three placeholder tokens
PH_PERSON == <<"{","P","E","R","S","O","N","}">>
PH_ORG == <<"{","O","R","G","}">>
PH_LOC == <<"{","L","O","C","}">>
Placeholders == {PH_PERSON, PH_ORG, PH_LOC}

\* one step of a stable sort: x put after the entries whose key x[0] is
\* not greater than its own
RECURSIVE InsertByStart(_, _)
InsertByStart(sorted, x) ==
    IF sorted = <<>> THEN <<x>>
    ELSE IF x[1] < Head(sorted)[1] THEN <<x>> \o sorted
    ELSE <<Head(sorted)>> \o InsertByStart(Tail(sorted), x)

\* faulty variant of SortEntities: the list is left in collection order
SortEntities_Unsorted(entities) == entities

\* current_entities.sort(key=lambda x: x[0]), a stable sort
RECURSIVE SortEntities(_)
SortEntities(entities) ==
    IF entities = <<>> THEN <<>>
    ELSE InsertByStart(SortEntities(SubSeq(entities, 1, Len(entities) - 1)),
                       entities[Len(entities)])

\* faulty variant of SpanEnd: the end is taken one character too far
SpanEnd_OnePast(pos, value) == pos + Len(value) + 1

\* pos + len(person), pos + len(org), pos + len(loc)
SpanEnd(pos, value) == pos + Len(value)

\* faulty variant of NoPlaceholderLeft: the remaining tokens are not looked for
NoPlaceholderLeft_Unchecked(s) == TRUE

\* not any(placeholder in current_text for placeholder in [...])
NoPlaceholderLeft(s) == \A ph \in Placeholders : ~Contains(s, ph)

\* faulty variant of HasEntities: an empty span list is accepted too
HasEntities_Always(entities) == TRUE

\* if current_entities:
HasEntities(entities) == entities # <<>>

\* faulty variant of NextSample: a rejected draw is made again
NextSample_Retry(i, accepted) == IF accepted THEN i + 1 ELSE i

\* for _ in range(num_samples): the loop advances after every draw
NextSample(i, accepted) == i + 1

\* "{PERSON} travaille chez {ORG} depuis janvier."
TplScenario == <<"{","P","E","R","S","O","N","}"," ","t","r","a","v","a","i","l","l","e"," ","c","h","e","z"," ","{","O","R","G","}"," ","d","e","p","u","i","s"," ","j","a","n","v","i","e","r",".">>
\* "{ORG} {PERSON}"
TplInterleaved == <<"{","O","R","G","}"," ","{","P","E","R","S","O","N","}">>
\* "{PERSON} de {LOC} contacte {PERSON} par email."
TplContact == <<"{","P","E","R","S","O","N","}"," ","d","e"," ","{","L","O","C","}"," ","c","o","n","t","a","c","t","e"," ","{","P","E","R","S","O","N","}"," ","p","a","r"," ","e","m","a","i","l",".">>
\* "{PERSON} {PERSON} {ORG} {LOC}"
TplOrdered == <<"{","P","E","R","S","O","N","}"," ","{","P","E","R","S","O","N","}"," ","{","O","R","G","}"," ","{","L","O","C","}">>
\* "Bonjour."
TplPlain == <<"B","o","n","j","o","u","r",".">>

\* the template files load_context_templates may read, as their stripped
\* non-empty lines (an empty file gives no template)
TemplateFiles ==
    {<<>>, <<TplScenario>>, <<TplInterleaved, TplPlain>>,
     <<TplContact, TplPlain>>, <<TplScenario, TplInterleaved, TplContact>>,
     <<TplOrdered>>}

\* "Jean Dupont", "Al", "Microsoft", "Lyon"
JeanDupont == <<"J","e","a","n"," ","D","u","p","o","n","t">>
Al == <<"A","l">>
Microsoft == <<"M","i","c","r","o","s","o","f","t">>
Lyon == <<"L","y","o","n">>

\* the directory files load_directory_file may read for each entity type;
\* one person file has the line "{PERSON}", a name that holds a token
DirectoryFiles(entity_type) ==
    CASE entity_type = L_PERSON ->
            {<<JeanDupont>>, <<JeanDupont, Al>>, <<PH_PERSON>>}
      [] entity_type = L_ORG -> {<<Microsoft>>}
      [] entity_type = L_LOC -> {<<Lyon>>}

VARIABLES
    person_names,        \* self.person_names
    org_names,           \* self.org_names
    location_names,      \* self.location_names
    context_templates,   \* self.context_templates
    generated_data,      \* self.generated_data
    gen_pc,              \* "idle" (no call running), the position in
                         \* generate_training_data: "for", "person", "org",
                         \* "loc", "validate", or how it just ended:
                         \* "returned", "raised", or how the last load
                         \* call ended when it failed: "load_failed"
    num_samples,         \* num_samples
    sample,              \* iterations of for _ in range(num_samples) done
    template,            \* template
    current_text,        \* current_text
    current_entities,    \* current_entities
    training_data,       \* training_data
    current_values,      \* history: current_entities, each with its value
    example_values,      \* history: per accepted example, the same, sorted
    example_templates,   \* history: per accepted example, its template
    draws,               \* history: random.choice(context_templates) calls
    rejected,            \* history: draws that were not accepted
    generations,         \* history: generate_training_data calls started
    failed_loads         \* history: load calls that raised

gen_vars == <<person_names, org_names, location_names, context_templates,
              generated_data, gen_pc, num_samples, sample, template,
              current_text, current_entities, training_data, current_values,
              example_values, example_templates, draws, rejected,
              generations, failed_loads>>

\* DataGenerator.__init__
DataGenerator_init ==
    /\ person_names = <<>>
    /\ org_names = <<>>
    /\ location_names = <<>>
    /\ context_templates = <<>>
    /\ generated_data = <<>>
    /\ gen_pc = "idle"
    /\ num_samples = 0
    /\ sample = 0
    /\ template = <<>>
    /\ current_text = <<>>
    /\ current_entities = <<>>
    /\ training_data = <<>>
    /\ current_values = <<>>
    /\ example_values = <<>>
    /\ example_templates = <<>>
    /\ draws = 0
    /\ rejected = 0
    /\ generations = 0
    /\ failed_loads = 0

(***************************************************************************)
(* The window of the pseudonymizer (PseudonymizerGUI): the handlers Tk      *)
(* runs on its one thread, nested where a handler pumps the event loop.    *)
(***************************************************************************)
\* process_file calls followed
MaxFiles == 3
\* on_model_change events followed
MaxModelChanges == 1

VARIABLES
    host_stack,          \* the handlers that have started and not returned,
                         \* the running one last; each with its position
    host_pseudonymizer,  \* self.pseudonymizer: 0 for None, else the number
                         \* of the TextPseudonymizer object
    process_button,      \* state of self.process_button
    host_timers,         \* root.after(..., self.init_model) calls pending
    resolve_log,         \* history: the resolve calls made, each with the
                         \* process_file call and the object it ran in
    host_files,          \* history: process_file calls started
    host_models,         \* history: TextPseudonymizer objects created
    host_changes         \* history: on_model_change events

host_vars == <<host_stack, host_pseudonymizer, process_button, host_timers,
               resolve_log, host_files, host_models, host_changes>>

\* PseudonymizerGUI.__init__
PseudonymizerGUI_init ==
    /\ host_stack = <<>>
    /\ host_pseudonymizer = 0
    /\ process_button = "disabled"
    /\ host_timers = 1
    /\ resolve_log = <<>>
    /\ host_files = 0
    /\ host_models = 0
    /\ host_changes = 0

(***************************************************************************)
(* The fine-tuning window (FineTuningGUI) with its SpacyFineTuner objects. *)
(***************************************************************************)
\* start_training calls followed
MaxRuns == 2
\* check_download_model calls followed
MaxChecks == 2
\* generate_data calls followed
MaxGenerateClicks == 1
\* n_iterations of a training run
MaxIterations == 2

VARIABLES
    tr_stack,            \* the handlers of the window that have started and
                         \* not returned, the running one last
    fine_tuner,          \* self.fine_tuner: 0 for None, else the number of
                         \* the SpacyFineTuner object
    tuners,              \* the SpacyFineTuner objects created: whether nlp
                         \* is loaded, training_data is non-empty, and
                         \* whether fine_tune has trained the object
    tr_generated,        \* len(self.data_generator.generated_data)
    output_model_path,   \* whether self.output_model_path is set
    generate_button,     \* state of self.generate_button
    train_button,        \* state of self.train_button
    progress,            \* value of self.progress
    tr_log,              \* history: the SpacyFineTuner methods
                         \* start_training has called, each with the run
                         \* and the object it was called on
    tr_runs,             \* history: start_training calls
    tr_checks,           \* history: check_download_model calls
    tr_clicks            \* history: generate_data calls

train_vars == <<tr_stack, fine_tuner, tuners, tr_generated,
                output_model_path, generate_button, train_button, progress,
                tr_log, tr_runs, tr_checks, tr_clicks>>

\* FineTuningGUI.__init__ and create_widgets
FineTuningGUI_init ==
    /\ tr_stack = <<>>
    /\ fine_tuner = 0
    /\ tuners = <<>>
    /\ tr_generated = 0
    /\ output_model_path = FALSE
    /\ generate_button = "normal"
    /\ train_button = "normal"
    /\ progress = 0
    /\ tr_log = <<>>
    /\ tr_runs = 0
    /\ tr_checks = 0
    /\ tr_clicks = 0

(***************************************************************************)
(* State.                                                                  *)
(***************************************************************************)
VARIABLES
    correspondences,     \* self.correspondences
    counters,            \* self.person_counter ... self.phone_counter
    pc,                  \* "idle", "loop" (for ent in doc.ents), "phones", "done"
    text,                \* the text argument of the running call
    config,              \* its config argument
    ents,                \* doc.ents
    idx,                 \* position of the for loop in ents
    offset,              \* offset
    pseudonymized_text,  \* pseudonymized_text
    entities_found,      \* entities_found
    result,              \* the dict the last call returned
    resolved,            \* history: the resolve calls made on this registry
    start_registry,      \* history: the registry when the running call began
    ncalls               \* history: pseudonymize calls started

vars == <<correspondences, counters, pc, text, config, ents, idx, offset,
          pseudonymized_text, entities_found, result, resolved,
          start_registry, ncalls>>

\* what the actions of each program leave alone
NotPseudonymizer == <<gen_vars, host_vars, train_vars>>
NotGenerator == <<vars, host_vars, train_vars>>
NotHost == <<vars, gen_vars, train_vars>>
NotTrain == <<vars, gen_vars, host_vars>>

EmptyDict == [k \in {} |-> <<>>]
NoResult == [returned |-> FALSE]

\* the registry of the object, in the form the resolve operator takes
Registry == [corr |-> correspondences, cnt |-> counters, calls |-> resolved]

\* TextPseudonymizer.__init__
Init ==
    /\ correspondences = EmptyDict
    /\ counters = [c \in CounterNames |-> 1]
    /\ pc = "idle"
    /\ text = <<>>
    /\ config \in {c \in Configs :
                     ~c.use_placeholders /\ \A f \in MaskFlags : c[f]}
    /\ ents = <<>>
    /\ idx = 1
    /\ offset = 0
    /\ pseudonymized_text = <<>>
    /\ entities_found = <<>>
    /\ result = NoResult
    /\ resolved = {}
    /\ start_registry = [corr |-> EmptyDict, cnt |-> [c \in CounterNames |-> 1]]
    /\ ncalls = 0
    /\ DataGenerator_init
    /\ PseudonymizerGUI_init
    /\ FineTuningGUI_init

\* faulty variant of should_mask: the type is tested and the config flag is not
should_mask_Ungated(entity_type, cfg) ==
    entity_type \in {PERSONNE, ORGANISATION, LIEU, DATE}

\* the should_mask decision of the loop body
should_mask(entity_type, cfg) ==
    \/ entity_type = PERSONNE /\ cfg.mask_persons
    \/ entity_type = ORGANISATION /\ cfg.mask_orgs
    \/ entity_type = LIEU /\ cfg.mask_locations
    \/ entity_type = DATE /\ cfg.mask_dates

\* faulty variant of SplicePos: the running offset is not applied
SplicePos_NoOffset(char_pos, off) == char_pos

\* start_pos = ent.start_char + offset, end_pos = ent.end_char + offset
SplicePos(char_pos, off) == char_pos + off

\* faulty variant of PositionString: the end recorded as the last character's index
PositionString_InclusiveEnd(ent) ==
    Str(ent.start_char) \o <<"-">> \o Str(ent.end_char - 1)

\* f"{ent.start_char}-{ent.end_char}"
PositionString(ent) == Str(ent.start_char) \o <<"-">> \o Str(ent.end_char)

\* faulty variant of NextOffset: the length of the original is not taken off
NextOffset_Grow(off, replacement, original) == off + Len(replacement)

\* offset += len(replacement) - len(ent.text)
NextOffset(off, replacement, original) ==
    off + Len(replacement) - Len(original)

\* the entry appended to entities_found
LogEntry(ent, ent_text, entity_type, replacement) ==
    [original |-> ent_text, replacement |-> replacement,
     type |-> entity_type, position |-> PositionString(ent)]

\* the body of for ent in doc.ents on the locals
\* loc = [reg, pseudonymized_text, offset, entities_found]
LoopBody(loc, t, ent, cfg) ==
    IF should_mask(entity_mapping(ent.label_), cfg)
    THEN CHOOSE nl \in
           {[reg |-> RegOf(r),
             pseudonymized_text |->
                SliceTo(loc.pseudonymized_text,
                        SplicePos(ent.start_char, loc.offset))
                  \o r.replacement
                  \o SliceFrom(loc.pseudonymized_text,
                               SplicePos(ent.end_char, loc.offset)),
             offset |-> NextOffset(loc.offset, r.replacement,
                                   EntText(t, ent)),
             entities_found |->
                Append(loc.entities_found,
                       LogEntry(ent, EntText(t, ent),
                                entity_mapping(ent.label_), r.replacement))] :
            r \in {generate_consistent_replacement(
                      loc.reg, EntText(t, ent),
                      entity_mapping(ent.label_), cfg)}} : TRUE
    ELSE loc

\* the order in which the loop visits doc.ents: as the detector gave them
LoopOrder(es) == es

\* the for loop run from position k of es on the locals loc
RECURSIVE RunLoop(_, _, _, _, _)
RunLoop(loc, t, es, cfg, k) ==
    IF k > Len(es) THEN loc
    ELSE CHOOSE out \in {RunLoop(nl, t, es, cfg, k + 1) :
                           nl \in {LoopBody(loc, t, es[k], cfg)}} : TRUE

\* pseudonymize(t, cfg) as a function of the spans es the detector gives
\* and of the registry reg it starts on: the returned text and log
Pseudonymize(t, es, reg, cfg) ==
    CHOOSE out \in
      UNION {UNION {{[pseudonymized_text |-> ph.text,
                      entities |-> loc.entities_found] :
                     ph \in {regex_phones(em.text, em.reg, cfg)}} :
                    em \in {regex_emails(loc.pseudonymized_text, loc.reg, cfg)}} :
             loc \in {RunLoop([reg |-> reg, pseudonymized_text |-> t,
                                offset |-> 0, entities_found |-> <<>>],
                               t, LoopOrder(es), cfg, 1)}} : TRUE

\* pseudonymize, up to the for loop: doc = self.nlp(text) and the locals
pseudonymize_begin ==
    /\ pc \in {"idle", "done"}
    /\ ncalls < MaxCalls
    /\ \E t \in Texts, c \in Configs :
         \E es \in Docs(t) :
            /\ text' = t
            /\ config' = c
            /\ ents' = LoopOrder(es)
            /\ pseudonymized_text' = t
    /\ idx' = 1
    /\ offset' = 0
    /\ entities_found' = <<>>
    /\ result' = NoResult
    /\ start_registry' = [corr |-> correspondences, cnt |-> counters]
    /\ ncalls' = ncalls + 1
    /\ pc' = "loop"
    /\ UNCHANGED <<correspondences, counters, resolved>>
    /\ UNCHANGED NotPseudonymizer

\* one iteration of for ent in doc.ents
pseudonymize_entity ==
    /\ pc = "loop"
    /\ idx <= Len(ents)
    /\ \E nl \in {LoopBody([reg |-> Registry,
                            pseudonymized_text |-> pseudonymized_text,
                            offset |-> offset,
                            entities_found |-> entities_found],
                           text, ents[idx], config)} :
          /\ correspondences' = nl.reg.corr
          /\ counters' = nl.reg.cnt
          /\ resolved' = nl.reg.calls
          /\ pseudonymized_text' = nl.pseudonymized_text
          /\ offset' = nl.offset
          /\ entities_found' = nl.entities_found
    /\ idx' = idx + 1
    /\ UNCHANGED <<pc, text, config, ents, result, start_registry, ncalls>>
    /\ UNCHANGED NotPseudonymizer

\* faulty variant of LoopExhausted: the loop may be left with spans still to process
LoopExhausted_Early(i, es) == TRUE

\* for ent in doc.ents has no span left
LoopExhausted(i, es) == i > Len(es)

\* after the loop, _pseudonymize_regex_patterns: the email pass
pseudonymize_emails ==
    /\ pc = "loop"
    /\ LoopExhausted(idx, ents)
    /\ \E r \in {regex_emails(pseudonymized_text, Registry, config)} :
          /\ correspondences' = r.reg.corr
          /\ counters' = r.reg.cnt
          /\ resolved' = r.reg.calls
          /\ pseudonymized_text' = r.text
    /\ pc' = "phones"
    /\ UNCHANGED <<text, config, ents, idx, offset, entities_found, result,
                   start_registry, ncalls>>
    /\ UNCHANGED NotPseudonymizer

\* the phone pass, then the returned dict
pseudonymize_phones ==
    /\ pc = "phones"
    /\ \E r \in {regex_phones(pseudonymized_text, Registry, config)} :
          /\ correspondences' = r.reg.corr
          /\ counters' = r.reg.cnt
          /\ resolved' = r.reg.calls
          /\ pseudonymized_text' = r.text
          /\ result' = [returned |-> TRUE,
                        original_text |-> text,
                        pseudonymized_text |-> r.text,
                        entities |-> entities_found,
                        correspondences |-> r.reg.corr]
    /\ pc' = "done"
    /\ UNCHANGED <<text, config, ents, idx, offset, entities_found,
                   start_registry, ncalls>>
    /\ UNCHANGED NotPseudonymizer

Next ==
    \/ pseudonymize_begin
    \/ pseudonymize_entity
    \/ pseudonymize_emails
    \/ pseudonymize_phones

all_vars == <<vars, gen_vars, host_vars, train_vars>>

Spec == Init /\ [][Next]_all_vars

(***************************************************************************)
(* The training-data generator: its operations.                            *)
(***************************************************************************)
\* the pool load_directory_file extends for an entity type
\* no call on the DataGenerator is running
NoCallRunning == gen_pc \in {"idle", "returned", "raised", "load_failed"}

PoolOf(entity_type) ==
    CASE entity_type = L_PERSON -> person_names
      [] entity_type = L_ORG -> org_names
      [] entity_type = L_LOC -> location_names

\* load_directory_file(file_path, entity_type): names appended to the pool
load_directory_file ==
    /\ NoCallRunning
    /\ \E entity_type \in {L_PERSON, L_ORG, L_LOC} :
         \E names \in DirectoryFiles(entity_type) :
            /\ Len(PoolOf(entity_type)) + Len(names) <= MaxPool
            /\ person_names' = IF entity_type = L_PERSON
                               THEN person_names \o names ELSE person_names
            /\ org_names' = IF entity_type = L_ORG
                            THEN org_names \o names ELSE org_names
            /\ location_names' = IF entity_type = L_LOC
                                 THEN location_names \o names
                                 ELSE location_names
    /\ gen_pc' = "idle"
    /\ UNCHANGED <<context_templates, generated_data, num_samples,
                   sample, template, current_text, current_entities,
                   training_data, current_values, example_values,
                   example_templates, draws, rejected, generations>>
    /\ UNCHANGED failed_loads
    /\ UNCHANGED NotGenerator

\* load_context_templates(file_path): the templates are replaced
load_context_templates ==
    /\ NoCallRunning
    /\ \E templates \in TemplateFiles :
          /\ templates # context_templates
          /\ context_templates' = templates
    /\ gen_pc' = "idle"
    /\ UNCHANGED <<person_names, org_names, location_names, generated_data,
                   num_samples, sample, template, current_text,
                   current_entities, training_data, current_values,
                   example_values, example_templates, draws, rejected,
                   generations>>
    /\ UNCHANGED failed_loads
    /\ UNCHANGED NotGenerator

\* what a pool or the template list holds after a load call that raised,
\* read being the lines read before the error: the assignment that follows
\* the reading is not reached
FailedLoad_KeepsRead(before, read) == before \o read
FailedLoad(before, read) == before

\* load_directory_file(file_path, entity_type) when open or a read raises:
\* the except clause raises Exception to the caller
load_directory_file_raises ==
    /\ NoCallRunning
    /\ failed_loads < MaxFailedLoads
    /\ failed_loads' = failed_loads + 1
    /\ \E entity_type \in {L_PERSON, L_ORG, L_LOC} :
         \E names \in DirectoryFiles(entity_type) \cup {<<>>} :
            /\ person_names' = IF entity_type = L_PERSON
                               THEN FailedLoad(person_names, names)
                               ELSE person_names
            /\ org_names' = IF entity_type = L_ORG
                            THEN FailedLoad(org_names, names)
                            ELSE org_names
            /\ location_names' = IF entity_type = L_LOC
                                 THEN FailedLoad(location_names, names)
                                 ELSE location_names
    /\ gen_pc' = "load_failed"
    /\ UNCHANGED <<context_templates, generated_data, num_samples,
                   sample, template, current_text, current_entities,
                   training_data, current_values, example_values,
                   example_templates, draws, rejected, generations>>
    /\ UNCHANGED NotGenerator

\* load_context_templates(file_path) when open or a read raises
load_context_templates_raises ==
    /\ NoCallRunning
    /\ failed_loads < MaxFailedLoads
    /\ failed_loads' = failed_loads + 1
    /\ \E templates \in TemplateFiles :
          context_templates' = FailedLoad(context_templates, templates)
    /\ gen_pc' = "load_failed"
    /\ UNCHANGED <<person_names, org_names, location_names, generated_data,
                   num_samples, sample, template, current_text,
                   current_entities, training_data, current_values,
                   example_values, example_templates, draws, rejected,
                   generations>>
    /\ UNCHANGED NotGenerator

\* generate_training_data(num_samples), up to the for loop: it raises when
\* no template is loaded
generate_begin ==
    /\ NoCallRunning
    /\ \/ generations < MaxGenerations
       \/ /\ gen_pc = "returned"
          /\ generations < MaxGenerations + MaxRegenerations
    /\ generations' = generations + 1
    /\ \E n \in 0..(IF generations < MaxGenerations
                     THEN MaxSamples ELSE MaxResamples) : num_samples' = n
    /\ gen_pc' = IF context_templates = <<>> THEN "raised" ELSE "for"
    /\ training_data' = <<>>
    /\ sample' = 0
    /\ template' = <<>>
    /\ current_text' = <<>>
    /\ current_entities' = <<>>
    /\ current_values' = <<>>
    /\ example_values' = <<>>
    /\ example_templates' = <<>>
    /\ draws' = 0
    /\ rejected' = 0
    /\ UNCHANGED <<person_names, org_names, location_names,
                   context_templates, generated_data>>
    /\ UNCHANGED failed_loads
    /\ UNCHANGED NotGenerator

\* one iteration of the for loop begins: template = random.choice(...)
generate_draw ==
    /\ gen_pc = "for"
    /\ sample < num_samples
    /\ \E k \in DOMAIN context_templates :
          /\ template' = context_templates[k]
          /\ current_text' = context_templates[k]
    /\ current_entities' = <<>>
    /\ current_values' = <<>>
    /\ draws' = draws + 1
    /\ gen_pc' = "person"
    /\ UNCHANGED <<person_names, org_names, location_names,
                   context_templates, generated_data, num_samples, sample,
                   training_data, example_values, example_templates,
                   rejected, generations>>
    /\ UNCHANGED failed_loads
    /\ UNCHANGED NotGenerator

\* one evaluation of  while token in current_text and pool:  and, when it
\* holds, one run of the body with value = random.choice(pool); when it
\* does not, the pass ends and control goes to after
KindPass(token, pool, label, after) ==
    /\ \E found \in {Contains(current_text, token) /\ pool # <<>>} :
         IF found
         THEN \E k \in DOMAIN pool :
                \E pos \in {Find(current_text, token)} :
                   IF pos # -1
                   THEN /\ Len(current_entities) < MaxSpans
                        /\ current_entities' =
                             Append(current_entities,
                                    <<pos, SpanEnd(pos, pool[k]), label>>)
                        /\ current_values' =
                             Append(current_values,
                                    <<pos, SpanEnd(pos, pool[k]), label,
                                      pool[k]>>)
                        /\ current_text' =
                             ReplaceFirst(current_text, token, pool[k])
                        /\ UNCHANGED gen_pc
                   ELSE UNCHANGED <<current_entities, current_values,
                                    current_text, gen_pc>>
         ELSE /\ gen_pc' = after
              /\ UNCHANGED <<current_entities, current_values, current_text>>
    /\ UNCHANGED <<person_names, org_names, location_names,
                   context_templates, generated_data, num_samples, sample,
                   template, training_data, example_values,
                   example_templates, draws, rejected, generations>>
    /\ UNCHANGED failed_loads
    /\ UNCHANGED NotGenerator

\* while "{PERSON}" in current_text and self.person_names
generate_person ==
    gen_pc = "person" /\ KindPass(PH_PERSON, person_names, L_PERSON, "org")

\* while "{ORG}" in current_text and self.org_names
generate_org ==
    gen_pc = "org" /\ KindPass(PH_ORG, org_names, L_ORG, "loc")

\* while "{LOC}" in current_text and self.location_names
generate_loc ==
    gen_pc = "loc" /\ KindPass(PH_LOC, location_names, L_LOC, "validate")

\* the validation that ends an iteration: the example is appended with its
\* spans sorted, or the draw is dropped
generate_validate ==
    /\ gen_pc = "validate"
    /\ \E accepted \in {NoPlaceholderLeft(current_text)
                          /\ HasEntities(current_entities)} :
          /\ training_data' =
                IF accepted
                THEN Append(training_data,
                            [text |-> current_text,
                             entities |-> SortEntities(current_entities)])
                ELSE training_data
          /\ example_values' =
                IF accepted
                THEN Append(example_values, SortEntities(current_values))
                ELSE example_values
          /\ example_templates' =
                IF accepted THEN Append(example_templates, template)
                ELSE example_templates
          /\ rejected' = IF accepted THEN rejected ELSE rejected + 1
          /\ sample' = NextSample(sample, accepted)
    /\ gen_pc' = "for"
    /\ UNCHANGED <<person_names, org_names, location_names,
                   context_templates, generated_data, num_samples, template,
                   current_text, current_entities, current_values, draws,
                   generations>>
    /\ UNCHANGED failed_loads
    /\ UNCHANGED NotGenerator

\* self.generated_data = training_data, against a faulty variant that
\* extends the stored list
StoreGenerated_Extend(stored, data) == stored \o data
StoreGenerated(stored, data) == data

\* the for loop has ended: self.generated_data = training_data; return
generate_return ==
    /\ gen_pc = "for"
    /\ sample >= num_samples
    /\ generated_data' = StoreGenerated(generated_data, training_data)
    /\ gen_pc' = "returned"
    /\ UNCHANGED <<person_names, org_names, location_names,
                   context_templates, num_samples, sample, template,
                   current_text, current_entities, training_data,
                   current_values, example_values, example_templates, draws,
                   rejected, generations>>
    /\ UNCHANGED failed_loads
    /\ UNCHANGED NotGenerator

NextGen ==
    \/ load_directory_file
    \/ load_context_templates
    \/ load_directory_file_raises
    \/ load_context_templates_raises
    \/ generate_begin
    \/ generate_draw
    \/ generate_person
    \/ generate_org
    \/ generate_loc
    \/ generate_validate
    \/ generate_return

SpecGen == Init /\ [][NextGen]_all_vars

\* the steps inside generate_training_data are taken whenever they can be:
\* the call runs on one thread with nothing to wait for; whether a load or
\* a generation is started at all is up to the caller
SpecGenFair ==
    /\ SpecGen
    /\ WF_all_vars(generate_draw)
    /\ WF_all_vars(generate_person)
    /\ WF_all_vars(generate_org)
    /\ WF_all_vars(generate_loc)
    /\ WF_all_vars(generate_validate)
    /\ WF_all_vars(generate_return)

(***************************************************************************)
(* PseudonymizerGUI: the handlers.                                         *)
(***************************************************************************)
Frame(handler, at, doc, left) ==
    [handler |-> handler, at |-> at, doc |-> doc, left |-> left, inst |-> 0]

\* the running handler, and the stack with its position changed
Top == host_stack[Len(host_stack)]
Pop == SubSeq(host_stack, 1, Len(host_stack) - 1)
TopAt(frame) == [host_stack EXCEPT ![Len(host_stack)] = frame]

\* faulty variant of PumpsEvents: the rewriting call pumps the event loop too
PumpsEvents_DuringCall(at) == at \in {"update", "pseudonymize"}

\* the positions of a handler at which it runs the event loop of the
\* window: self.root.update()
PumpsEvents(at) == at = "update"

\* a widget event can be dispatched: the main loop is idle or the running
\* handler pumps events
EventsRun == IF host_stack = <<>> THEN TRUE ELSE PumpsEvents(Top.at)

\* a timer can fire: as a widget event, or while a message box is shown
TimersRun ==
    IF host_stack = <<>> THEN TRUE
    ELSE PumpsEvents(Top.at) \/ Top.at = "messagebox"

\* process_file, from the click to self.root.update(): without a file or a
\* model, or when the file cannot be read, it shows an error box
process_file ==
    /\ EventsRun
    /\ process_button = "normal"
    /\ host_files < MaxFiles
    /\ host_files' = host_files + 1
    /\ \E outcome \in {"no_file", "unreadable", "read"} :
         IF outcome = "read" /\ host_pseudonymizer # 0
         THEN \E n \in 0..MaxEnts :
                host_stack' = Append(host_stack,
                                     Frame("process_file", "update",
                                           host_files + 1, n))
         ELSE host_stack' = Append(host_stack,
                                   Frame("process_file", "messagebox",
                                         host_files + 1, 0))
    /\ UNCHANGED <<host_pseudonymizer, process_button, host_timers,
                   resolve_log, host_models, host_changes>>
    /\ UNCHANGED NotHost

\* update() has returned: result = self.pseudonymizer.pseudonymize(...)
\* is entered on the object the attribute holds now
process_file_pseudonymize ==
    /\ host_stack # <<>>
    /\ Top.handler = "process_file"
    /\ Top.at = "update"
    /\ host_stack' = TopAt([Top EXCEPT !.at = "pseudonymize",
                                       !.inst = host_pseudonymizer])
    /\ UNCHANGED <<host_pseudonymizer, process_button, host_timers,
                   resolve_log, host_files, host_models, host_changes>>
    /\ UNCHANGED NotHost

\* inside pseudonymize: one _generate_consistent_replacement call
process_file_resolve ==
    /\ host_stack # <<>>
    /\ Top.at = "pseudonymize"
    /\ Top.left > 0
    /\ resolve_log' = Append(resolve_log,
                             [doc |-> Top.doc, inst |-> Top.inst])
    /\ host_stack' = TopAt([Top EXCEPT !.left = @ - 1])
    /\ UNCHANGED <<host_pseudonymizer, process_button, host_timers,
                   host_files, host_models, host_changes>>
    /\ UNCHANGED NotHost

\* pseudonymize has returned: the files are written and the box is shown
process_file_written ==
    /\ host_stack # <<>>
    /\ Top.at = "pseudonymize"
    /\ Top.left = 0
    /\ host_stack' = TopAt([Top EXCEPT !.at = "messagebox"])
    /\ UNCHANGED <<host_pseudonymizer, process_button, host_timers,
                   resolve_log, host_files, host_models, host_changes>>
    /\ UNCHANGED NotHost

\* the message box is closed and the handler returns
messagebox_closed ==
    /\ host_stack # <<>>
    /\ Top.at = "messagebox"
    /\ host_stack' = Pop
    /\ UNCHANGED <<host_pseudonymizer, process_button, host_timers,
                   resolve_log, host_files, host_models, host_changes>>
    /\ UNCHANGED NotHost

\* on_model_change: the button is disabled and init_model is scheduled
on_model_change ==
    /\ EventsRun
    /\ host_changes < MaxModelChanges
    /\ host_changes' = host_changes + 1
    /\ process_button' = "disabled"
    /\ host_timers' = host_timers + 1
    /\ UNCHANGED <<host_stack, host_pseudonymizer, resolve_log, host_files,
                   host_models>>
    /\ UNCHANGED NotHost

\* init_model, from the timer to self.root.update()
init_model ==
    /\ TimersRun
    /\ host_timers > 0
    /\ host_timers' = host_timers - 1
    /\ host_stack' = Append(host_stack, Frame("init_model", "update", 0, 0))
    /\ UNCHANGED <<host_pseudonymizer, process_button, resolve_log,
                   host_files, host_models, host_changes>>
    /\ UNCHANGED NotHost

\* init_model after update(): a new TextPseudonymizer is stored and the
\* button enabled, or loading raises and an error box is shown
init_model_load ==
    /\ host_stack # <<>>
    /\ Top.handler = "init_model"
    /\ Top.at = "update"
    /\ \/ /\ host_pseudonymizer' = host_models + 1
          /\ host_models' = host_models + 1
          /\ process_button' = "normal"
          /\ host_stack' = Pop
       \/ /\ host_stack' = TopAt([Top EXCEPT !.at = "messagebox"])
          /\ UNCHANGED <<host_pseudonymizer, host_models, process_button>>
    /\ UNCHANGED <<host_timers, resolve_log, host_files, host_changes>>
    /\ UNCHANGED NotHost

NextHost ==
    \/ process_file
    \/ process_file_pseudonymize
    \/ process_file_resolve
    \/ process_file_written
    \/ messagebox_closed
    \/ on_model_change
    \/ init_model
    \/ init_model_load

SpecHost == Init /\ [][NextHost]_all_vars

(***************************************************************************)
(* FineTuningGUI: the handlers.                                            *)
(***************************************************************************)
TrainFrame(handler, at, started, run) ==
    [handler |-> handler, at |-> at, started |-> started, run |-> run,
     inst |-> 0, iter |-> 0]

TrTop == tr_stack[Len(tr_stack)]
TrPop == SubSeq(tr_stack, 1, Len(tr_stack) - 1)
TrTopAt(frame) == [tr_stack EXCEPT ![Len(tr_stack)] = frame]

\* SpacyFineTuner.__init__
NewTuner == [nlp |-> FALSE, data |-> FALSE, trained |-> FALSE]

\* the positions at which a handler of the window runs self.window.update()
UpdatePositions ==
    {"update", "update_10", "update_20", "update_25", "update_callback",
     "update_90"}

\* a widget event of the window can be dispatched
TrainEventsRun ==
    IF tr_stack = <<>> THEN TRUE ELSE TrTop.at \in UpdatePositions

\* faulty variant of MayStart: the test of self.fine_tuner is missing
MayStart_NoModelCheck(generated, path, tuner) == generated > 0 /\ path

\* the three tests that open start_training
MayStart(generated, path, tuner) == generated > 0 /\ path /\ tuner # 0

\* a method of the fine tuner is called by start_training
Called(step, inst) ==
    Append(tr_log, [run |-> TrTop.run, step |-> step, inst |-> inst])

\* progress = 20 + int((iteration / total) * 60)
CallbackProgress(iteration, total) == 20 + ((iteration * 60) \div total)

\* select_output_path: a folder is chosen
select_output_path ==
    /\ TrainEventsRun
    /\ ~output_model_path
    /\ output_model_path' = TRUE
    /\ UNCHANGED <<tr_stack, fine_tuner, tuners, tr_generated,
                   generate_button, train_button, progress, tr_log, tr_runs,
                   tr_checks, tr_clicks>>
    /\ UNCHANGED NotTrain

\* check_download_model, up to self.window.update()
check_download_model ==
    /\ TrainEventsRun
    /\ tr_checks < MaxChecks
    /\ tr_checks' = tr_checks + 1
    /\ tr_stack' = Append(tr_stack,
                          TrainFrame("check_download_model", "update",
                                     FALSE, 0))
    /\ UNCHANGED <<fine_tuner, tuners, tr_generated, output_model_path,
                   generate_button, train_button, progress, tr_log, tr_runs,
                   tr_clicks>>
    /\ UNCHANGED NotTrain

\* check_download_model after update(): the model loads, or is downloaded,
\* and self.fine_tuner = SpacyFineTuner(model_name); or it is missing and
\* nothing is assigned
check_download_model_done ==
    /\ tr_stack # <<>>
    /\ TrTop.handler = "check_download_model"
    /\ \/ /\ tuners' = Append(tuners, NewTuner)
          /\ fine_tuner' = Len(tuners) + 1
       \/ UNCHANGED <<tuners, fine_tuner>>
    /\ tr_stack' = TrPop
    /\ UNCHANGED <<tr_generated, output_model_path, generate_button,
                   train_button, progress, tr_log, tr_runs, tr_checks,
                   tr_clicks>>
    /\ UNCHANGED NotTrain

\* generate_data, up to self.window.update(): the button is disabled (the
\* two tests of the loaded files have passed)
generate_data ==
    /\ TrainEventsRun
    /\ generate_button = "normal"
    /\ tr_clicks < MaxGenerateClicks
    /\ tr_clicks' = tr_clicks + 1
    /\ generate_button' = "disabled"
    /\ tr_stack' = Append(tr_stack,
                          TrainFrame("generate_data", "update", FALSE, 0))
    /\ UNCHANGED <<fine_tuner, tuners, tr_generated, output_model_path,
                   train_button, progress, tr_log, tr_runs, tr_checks>>
    /\ UNCHANGED NotTrain

\* generate_data after update(): generate_training_data stores its result
\* and the button is enabled again
generate_data_done ==
    /\ tr_stack # <<>>
    /\ TrTop.handler = "generate_data"
    /\ \E n \in 0..1 : tr_generated' = n
    /\ generate_button' = "normal"
    /\ tr_stack' = TrPop
    /\ UNCHANGED <<fine_tuner, tuners, output_model_path, train_button,
                   progress, tr_log, tr_runs, tr_checks, tr_clicks>>
    /\ UNCHANGED NotTrain

\* start_training, from the click to the first self.window.update(): one of
\* the three tests fails and an error box is shown, or the buttons are
\* disabled and the progress bar set to 10
start_training ==
    /\ TrainEventsRun
    /\ train_button = "normal"
    /\ tr_runs < MaxRuns
    /\ tr_runs' = tr_runs + 1
    /\ IF MayStart(tr_generated, output_model_path, fine_tuner)
       THEN /\ generate_button' = "disabled"
            /\ train_button' = "disabled"
            /\ progress' = 10
            /\ tr_stack' = Append(tr_stack,
                                  TrainFrame("start_training", "update_10",
                                             TRUE, tr_runs + 1))
       ELSE /\ tr_stack' = Append(tr_stack,
                                  TrainFrame("start_training", "messagebox",
                                             FALSE, tr_runs + 1))
            /\ UNCHANGED <<generate_button, train_button, progress>>
    /\ UNCHANGED <<fine_tuner, tuners, tr_generated, output_model_path,
                   tr_log, tr_checks, tr_clicks>>
    /\ UNCHANGED NotTrain

\* the except branch: the progress bar is reset and an error box is shown
Failed(log) ==
    /\ progress' = 0
    /\ tr_log' = log
    /\ tr_stack' = TrTopAt([TrTop EXCEPT !.at = "messagebox"])

\* self.fine_tuner.load_base_model(), then the progress bar at 20
start_training_load ==
    /\ tr_stack # <<>>
    /\ TrTop.at = "update_10"
    /\ \E log \in {Called("load_base_model", fine_tuner)} :
         \/ /\ tuners' = [tuners EXCEPT ![fine_tuner].nlp = TRUE]
            /\ progress' = 20
            /\ tr_log' = log
            /\ tr_stack' = TrTopAt([TrTop EXCEPT !.at = "update_20"])
         \/ /\ Failed(log)
            /\ UNCHANGED tuners
    /\ UNCHANGED <<fine_tuner, tr_generated, output_model_path,
                   generate_button, train_button, tr_runs, tr_checks,
                   tr_clicks>>
    /\ UNCHANGED NotTrain

\* self.fine_tuner.prepare_training_data(generated_data): the object loads
\* its model if it has none and keeps the examples that could be built;
\* then the progress bar at 25
start_training_prepare ==
    /\ tr_stack # <<>>
    /\ TrTop.at = "update_20"
    /\ \E log \in {Called("prepare_training_data", fine_tuner)} :
         \/ /\ \E built \in BOOLEAN :
                 tuners' = [tuners EXCEPT ![fine_tuner].nlp = TRUE,
                                          ![fine_tuner].data = built]
            /\ progress' = 25
            /\ tr_log' = log
            /\ tr_stack' = TrTopAt([TrTop EXCEPT !.at = "update_25"])
         \/ /\ Failed(log)
            /\ UNCHANGED tuners
    /\ UNCHANGED <<fine_tuner, tr_generated, output_model_path,
                   generate_button, train_button, tr_runs, tr_checks,
                   tr_clicks>>
    /\ UNCHANGED NotTrain

\* self.fine_tuner.fine_tune(...) is entered: it raises on an object
\* without training data, else the first iteration calls update_progress
start_training_fine_tune ==
    /\ tr_stack # <<>>
    /\ TrTop.at = "update_25"
    /\ \E log \in {Called("fine_tune", fine_tuner)} :
         IF tuners[fine_tuner].data
         THEN /\ progress' = CallbackProgress(0, MaxIterations)
              /\ tr_log' = log
              /\ tr_stack' = TrTopAt([TrTop EXCEPT !.at = "update_callback",
                                                   !.inst = fine_tuner,
                                                   !.iter = 1])
         ELSE Failed(log)
    /\ UNCHANGED <<fine_tuner, tuners, tr_generated, output_model_path,
                   generate_button, train_button, tr_runs, tr_checks,
                   tr_clicks>>
    /\ UNCHANGED NotTrain

\* _run_training_loop: the iteration updates the model of the object
\* fine_tune was called on; the next one calls update_progress, the last
\* returns to start_training, which sets the progress bar to 90
start_training_iteration ==
    /\ tr_stack # <<>>
    /\ TrTop.at = "update_callback"
    /\ IF TrTop.iter < MaxIterations
       THEN /\ progress' = CallbackProgress(TrTop.iter, MaxIterations)
            /\ tr_stack' = TrTopAt([TrTop EXCEPT !.iter = @ + 1])
            /\ UNCHANGED tuners
       ELSE /\ tuners' = [tuners EXCEPT ![TrTop.inst].trained = TRUE]
            /\ progress' = 90
            /\ tr_stack' = TrTopAt([TrTop EXCEPT !.at = "update_90"])
    /\ UNCHANGED <<fine_tuner, tr_generated, output_model_path,
                   generate_button, train_button, tr_log, tr_runs, tr_checks,
                   tr_clicks>>
    /\ UNCHANGED NotTrain

\* self.fine_tuner.save_model(path): it raises on an object without a
\* model, else the progress bar is set to 100 and the success box shown
start_training_save ==
    /\ tr_stack # <<>>
    /\ TrTop.at = "update_90"
    /\ \E log \in {Called("save_model", fine_tuner)} :
         IF tuners[fine_tuner].nlp
         THEN /\ progress' = 100
              /\ tr_log' = log
              /\ tr_stack' = TrTopAt([TrTop EXCEPT !.at = "messagebox"])
         ELSE Failed(log)
    /\ UNCHANGED <<fine_tuner, tuners, tr_generated, output_model_path,
                   generate_button, train_button, tr_runs, tr_checks,
                   tr_clicks>>
    /\ UNCHANGED NotTrain

\* faulty variant of ButtonAfterRun: a failed run leaves the buttons disabled
ButtonAfterRun_SuccessOnly(button, bar) ==
    IF bar = 100 THEN "normal" ELSE button

\* the finally clause: button.config(state='normal')
ButtonAfterRun(button, bar) == "normal"

\* the box is closed and start_training returns: after the three tests at
\* once, after a run through the finally clause
start_training_return ==
    /\ tr_stack # <<>>
    /\ TrTop.handler = "start_training"
    /\ TrTop.at = "messagebox"
    /\ IF TrTop.started
       THEN /\ generate_button' = ButtonAfterRun(generate_button, progress)
            /\ train_button' = ButtonAfterRun(train_button, progress)
       ELSE UNCHANGED <<generate_button, train_button>>
    /\ tr_stack' = TrPop
    /\ UNCHANGED <<fine_tuner, tuners, tr_generated, output_model_path,
                   progress, tr_log, tr_runs, tr_checks, tr_clicks>>
    /\ UNCHANGED NotTrain

NextTrain ==
    \/ select_output_path
    \/ check_download_model
    \/ check_download_model_done
    \/ generate_data
    \/ generate_data_done
    \/ start_training
    \/ start_training_load
    \/ start_training_prepare
    \/ start_training_fine_tune
    \/ start_training_iteration
    \/ start_training_save
    \/ start_training_return

SpecTrain == Init /\ [][NextTrain]_all_vars

(***************************************************************************)
(* Properties.                                                             *)
(***************************************************************************)
\* the six types of the consistent-mode branches
CounterTypes == {PERSONNE, ORGANISATION, LIEU, DATE, EMAIL, TELEPHONE}

\* C1: idempotent identity. Any two resolve calls made on the registry,
\* in one pseudonymize call or in different ones, with the same entity
\* type and the same original text compared case-insensitively, returned
\* the identical pseudonym.
C1_IdempotentIdentity ==
    \A a, b \in resolved :
        (a.etype = b.etype /\ Lower(a.original) = Lower(b.original))
            => a.result = b.result

\* C1 witness: after two calls, the same value was resolved in two
\* different spellings, the later resolve finding the stored entry.
C1_Witness ==
    /\ ncalls = 2
    /\ \E a, b \in resolved :
          /\ a.etype = b.etype
          /\ a.original # b.original
          /\ Lower(a.original) = Lower(b.original)
          /\ a.fresh /\ ~b.fresh

\* C2: distinctness. While every resolve call made on the registry was
\* in consistent mode, any two originals of one of the six types that
\* differ after lower-casing were given different pseudonyms.
C2_Distinctness ==
    (\A c \in resolved : ~c.placeholders) =>
        \A a, b \in resolved :
            (/\ a.etype = b.etype
             /\ a.etype \in CounterTypes
             /\ Lower(a.original) # Lower(b.original))
                => a.result # b.result

\* C2 witness: two different e-mail addresses were resolved in consistent
\* mode, in different calls.
C2_Witness ==
    /\ \A c \in resolved : ~c.placeholders
    /\ \E a, b \in resolved :
          /\ a.etype = EMAIL /\ b.etype = EMAIL
          /\ Lower(a.original) # Lower(b.original)

\* the positions of es whose spans the config enables
Masked(es, cfg) ==
    {k \in DOMAIN es : should_mask(entity_mapping(es[k].label_), cfg)}

\* two spans share a character: their [start, end) ranges overlap
Overlap(a, b) == a.start_char < b.end_char /\ b.start_char < a.end_char

\* the spans of es at the positions K are pairwise non-overlapping
NonOverlapping(es, K) ==
    \A a, b \in K : a # b => ~Overlap(es[a], es[b])

\* the spans of es come in ascending order of start
Ascending(es) ==
    \A a, b \in DOMAIN es : a < b => es[a].start_char <= es[b].start_char

\* the for loop has ended and the pattern scanner has not run yet
LoopDone == pc = "loop" /\ idx > Len(ents)

\* sum over the log of len(replacement) - len(original)
RECURSIVE SumDeltas(_)
SumDeltas(log) ==
    IF log = <<>> THEN 0
    ELSE Len(Head(log).replacement) - Len(Head(log).original)
            + SumDeltas(Tail(log))

\* es sorted by start ascending, ties in the order of es
SortByStart(es) ==
    LET n == Len(es)
        ord == CHOOSE f \in [1..n -> 1..n] :
                  /\ \A i, j \in 1..n : i # j => f[i] # f[j]
                  /\ \A i, j \in 1..n : i < j =>
                        \/ es[f[i]].start_char < es[f[j]].start_char
                        \/ /\ es[f[i]].start_char = es[f[j]].start_char
                           /\ f[i] < f[j]
    IN  [k \in 1..n |-> es[ord[k]]]

\* int(digits)
RECURSIVE ParseInt(_)
ParseInt(digits) ==
    IF digits = <<>> THEN 0
    ELSE 10 * ParseInt(SubSeq(digits, 1, Len(digits) - 1))
            + (CHOOSE k \in DOMAIN DIGITS : DIGITS[k] = digits[Len(digits)]) - 1

\* a recorded "start-end" read back: the index of its "-", start, end
DashAt(position) == CHOOSE k \in DOMAIN position : position[k] = "-"
ParsedStart(position) == ParseInt(SubSeq(position, 1, DashAt(position) - 1))
ParsedEnd(position) ==
    ParseInt(SubSeq(position, DashAt(position) + 1, Len(position)))

\* C3 (as claimed): offset integrity. When the enabled spans are pairwise
\* non-overlapping, the text the span-rewriting loop produced, before the
\* pattern scanner runs, has length
\* L + sum of (len(replacement_i) - len(original_i)).
C3_OffsetIntegrity ==
    (LoopDone /\ NonOverlapping(ents, Masked(ents, config))) =>
        Len(pseudonymized_text) = Len(text) + SumDeltas(entities_found)

\* Auxiliary to C3 (not the claim): the length law does hold for the calls
\* whose spans arrive in ascending order of start.
OffsetIntegrityAscending ==
    (/\ LoopDone
     /\ Ascending(ents)
     /\ NonOverlapping(ents, Masked(ents, config))) =>
        Len(pseudonymized_text) = Len(text) + SumDeltas(entities_found)

\* C4 (as claimed): rejection of overlap. pseudonymize returns a result
\* only if no two of the spans it was given to rewrite overlap.
C4_OverlapRejected ==
    result.returned => NonOverlapping(ents, Masked(ents, config))

\* C5 (as claimed): the spans are sorted by start before they are
\* processed, so for non-overlapping spans the returned text and log are
\* those of the call made with the spans in ascending order of start,
\* whatever order they arrived in.
C5_OrderIndependent ==
    (result.returned /\ NonOverlapping(ents, DOMAIN ents)) =>
        \E sorted \in {Pseudonymize(text, SortByStart(ents),
                                    [corr |-> start_registry.corr,
                                     cnt |-> start_registry.cnt,
                                     calls |-> {}], config)} :
            /\ result.pseudonymized_text = sorted.pseudonymized_text
            /\ result.entities = sorted.entities

\* C6: round-trip span recovery. For every entry of the applied-entities
\* log, while it is built and in the returned dict, the original text
\* sliced at the entry's recorded "start-end" position is the entry's
\* recorded original.
C6_RoundTrip ==
    /\ \A k \in DOMAIN entities_found :
          PySlice(text, ParsedStart(entities_found[k].position),
                  ParsedEnd(entities_found[k].position))
             = entities_found[k].original
    /\ result.returned =>
          \A k \in DOMAIN result.entities :
             PySlice(result.original_text,
                     ParsedStart(result.entities[k].position),
                     ParsedEnd(result.entities[k].position))
                = result.entities[k].original

\* C6 witness: a returned log whose second entry was recorded after a
\* replacement that changed the length of the text.
C6_Witness ==
    /\ result.returned
    /\ Len(result.entities) >= 2
    /\ Len(result.entities[1].replacement) # Len(result.entities[1].original)
    /\ ParsedStart(result.entities[2].position) > 0

\* the running call started on a registry no resolve had changed
FreshRegistry ==
    /\ start_registry.corr = EmptyDict
    /\ \A c \in CounterNames : start_registry.cnt[c] = 1

\* the running call is the scenario: the text "Jean Dupont contacte Jean
\* Dupont." with two PERSONNE spans, the first at (0, 11) and the second
\* at (s2, e2), in consistent mode with persons masked, on a fresh registry
ScenarioCall(s2, e2) ==
    /\ text = TextScenario
    /\ Len(ents) = 2
    /\ ents[1].start_char = 0 /\ ents[1].end_char = 11
    /\ ents[2].start_char = s2 /\ ents[2].end_char = e2
    /\ entity_mapping(ents[1].label_) = PERSONNE
    /\ entity_mapping(ents[2].label_) = PERSONNE
    /\ ~config.use_placeholders
    /\ config.mask_persons
    /\ FreshRegistry

\* C7 (as claimed): the scenario with the second span at (22, 33) returns
\* "PERSON_1 contacte PERSON_1.", the same pseudonym at both occurrences
\* and exactly one registry entry.
C7_ScenarioAsClaimed ==
    (result.returned /\ ScenarioCall(22, 33)) =>
        /\ result.pseudonymized_text =
              <<"P","E","R","S","O","N","_","1"," ","c","o","n","t","a","c","t","e"," ","P","E","R","S","O","N","_","1",".">>
        /\ result.entities[1].replacement = result.entities[2].replacement
        /\ Cardinality(DOMAIN result.correspondences) = 1

\* C7 (amended): the second "Jean Dupont" is the span (21, 32) and the
\* type's pseudonym prefix is PERSONNE: the scenario returns
\* "PERSONNE_1 contacte PERSONNE_1.", with PERSONNE_1 logged for both
\* occurrences and exactly one registry entry.
C7_Scenario ==
    (result.returned /\ ScenarioCall(21, 32)) =>
        /\ result.pseudonymized_text =
              <<"P","E","R","S","O","N","N","E","_","1"," ","c","o","n","t","a","c","t","e"," ","P","E","R","S","O","N","N","E","_","1",".">>
        /\ Len(result.entities) = 2
        /\ result.entities[1].replacement = <<"P","E","R","S","O","N","N","E","_","1">>
        /\ result.entities[2].replacement = <<"P","E","R","S","O","N","N","E","_","1">>
        /\ Cardinality(DOMAIN result.correspondences) = 1

\* C7 witness: the amended scenario has returned.
C7_Witness == result.returned /\ ScenarioCall(21, 32)

\* the mask flag that gates a type
FlagOf(entity_type, cfg) ==
    CASE entity_type = PERSONNE -> cfg.mask_persons
      [] entity_type = ORGANISATION -> cfg.mask_orgs
      [] entity_type = LIEU -> cfg.mask_locations
      [] entity_type = DATE -> cfg.mask_dates
      [] entity_type = EMAIL -> cfg.mask_emails
      [] entity_type = TELEPHONE -> cfg.mask_phones

\* the registry keys of a type: those that start with the type and "_"
KeysOfType(corr, entity_type) ==
    {k \in DOMAIN corr :
        /\ Len(k) > Len(entity_type)
        /\ SubSeq(k, 1, Len(entity_type) + 1) = entity_type \o <<"_">>}

\* the type of the span the loop is about to process
CurrentType == entity_mapping(ents[idx].label_)

\* C8: config gating. In every step of a call whose config has the mask
\* flag of a type false: the counter of the type keeps its value, no
\* registry entry of the type is added or changed, no resolve call of
\* the type is made and no log entry of the type is recorded. The loop
\* iteration on a span of such a type leaves the text, the offset, the
\* registry, the counters and the log as they were, and so does the
\* scanner pass of a disabled kind (emails, phones).
C8_ConfigGating ==
    [][/\ \A ty \in CounterTypes :
            ~FlagOf(ty, config') =>
               /\ counters'[CounterOf(ty)] = counters[CounterOf(ty)]
               /\ \A k \in KeysOfType(correspondences', ty) :
                     /\ k \in DOMAIN correspondences
                     /\ correspondences'[k] = correspondences[k]
               /\ {c \in resolved' : c.etype = ty} \subseteq resolved
               /\ \A k \in DOMAIN entities_found' :
                     entities_found'[k].type = ty =>
                        /\ k \in DOMAIN entities_found
                        /\ entities_found'[k] = entities_found[k]
       /\ (/\ pc = "loop" /\ idx <= Len(ents)
           /\ CurrentType \in CounterTypes
           /\ ~FlagOf(CurrentType, config))
             => UNCHANGED <<pseudonymized_text, offset, correspondences,
                            counters, entities_found>>
       /\ (LoopDone /\ ~config.mask_emails)
             => UNCHANGED <<pseudonymized_text, correspondences, counters>>
       /\ (pc = "phones" /\ ~config.mask_phones)
             => UNCHANGED <<pseudonymized_text, correspondences, counters>>
      ]_vars

\* C8 witness: a call has returned whose text held a span of a disabled
\* type next to an enabled one that was replaced.
C8_Witness ==
    /\ result.returned
    /\ \E k \in DOMAIN ents :
          /\ entity_mapping(ents[k].label_) \in CounterTypes
          /\ ~FlagOf(entity_mapping(ents[k].label_), config)
    /\ Len(result.entities) = 1

\* C9: placeholder mode. Every resolve call that found no entry with
\* use_placeholders set returned exactly "[" + entity_type + "]", and
\* the registry holds that value under the call's key; no step of a call
\* in placeholder mode changes a counter.
C9_PlaceholderMode ==
    /\ [](\A c \in resolved :
            (c.fresh /\ c.placeholders) =>
               /\ c.result = <<"[">> \o c.etype \o <<"]">>
               /\ (c.etype \o <<"_">> \o Lower(c.original))
                     \in DOMAIN correspondences
               /\ correspondences[c.etype \o <<"_">> \o Lower(c.original)]
                     = c.result)
    /\ [][config.use_placeholders => counters' = counters]_vars

\* C9 witness: two different originals of one type were resolved in
\* placeholder mode, both new to the registry, and got the same pseudonym.
C9_Witness ==
    \E a, b \in resolved :
        /\ a.fresh /\ a.placeholders
        /\ b.fresh /\ b.placeholders
        /\ a.etype = b.etype
        /\ Lower(a.original) # Lower(b.original)
        /\ a.result = b.result

\* the pseudonyms the counter of a type has produced so far
Issued(entity_type) ==
    {CounterPseudonym(entity_type, n) :
        n \in 1..(counters[CounterOf(entity_type)] - 1)}

\* C10: the registry is append-only. No step removes or changes an
\* entry or decreases a counter; every counter value used in a pseudonym
\* lies below the counter of its type, and no pseudonym a counter
\* produced is held by two keys.
C10_AppendOnly ==
    /\ [][/\ \A k \in DOMAIN correspondences :
               /\ k \in DOMAIN correspondences'
               /\ correspondences'[k] = correspondences[k]
          /\ \A c \in CounterNames : counters'[c] >= counters[c]]_vars
    /\ [](/\ \A c \in resolved :
               c.num > 0 =>
                  /\ c.num < counters[CounterOf(c.etype)]
                  /\ c.result = CounterPseudonym(c.etype, c.num)
          /\ \A ty \in CounterTypes :
               \A k1, k2 \in DOMAIN correspondences :
                  (k1 # k2 /\ correspondences[k1] \in Issued(ty))
                     => correspondences[k1] # correspondences[k2])

\* C10 witness: a second call has returned on a registry that the first
\* call had filled, and it added entries of its own.
C10_Witness ==
    /\ result.returned
    /\ ncalls = 2
    /\ start_registry.corr # EmptyDict
    /\ Cardinality(DOMAIN correspondences)
          > Cardinality(DOMAIN start_registry.corr)
    /\ counters.person_counter >= 3

\* the labels that are keys of the mapping table
MappedLabels == {L_PERSON, L_PER, L_ORG, L_GPE, L_LOC, DATE, L_TIME}

\* the spans of es whose label the mapping table knows
MappedSpans(es) == SelectSeq(es, LAMBDA e : e.label_ \in MappedLabels)

\* the call that is running or has just returned, made without the spans
\* of unmapped labels on the registry it began with
CallWithoutUnmapped ==
    Pseudonymize(text, MappedSpans(ents),
                 [corr |-> start_registry.corr, cnt |-> start_registry.cnt,
                  calls |-> {}],
                 config)

\* C11: unmapped labels. When the detector gave a span whose label is not
\* in the mapping table, the call still returns a result; that span keeps
\* its label as its type and has no log entry; and the returned text and
\* log are those of the same call without the unmapped spans, so every
\* other enabled span is replaced as it would have been.
C11_UnmappedPassThrough ==
    (pc = "done" /\ \E k \in DOMAIN ents : ents[k].label_ \notin MappedLabels)
    =>
    /\ result.returned
    /\ \A k \in DOMAIN ents :
          ents[k].label_ \notin MappedLabels =>
             /\ entity_mapping(ents[k].label_) = ents[k].label_
             /\ \A j \in DOMAIN result.entities :
                   result.entities[j].type # ents[k].label_
    /\ \E c \in {CallWithoutUnmapped} :
          /\ result.pseudonymized_text = c.pseudonymized_text
          /\ result.entities = c.entities

\* C11 witness: a call whose detector gave a MISC span and a TIME span has
\* returned "Paris DATE_1" with the one log entry of the date.
C11_Witness ==
    /\ pc = "done"
    /\ result.returned
    /\ ents = <<Span(0, 5, L_MISC), Span(6, 16, L_TIME)>>
    /\ result.pseudonymized_text = <<"P","a","r","i","s"," ","D","A","T","E","_","1">>
    /\ Len(result.entities) = 1
    /\ result.entities[1].type = DATE

\* the types the pattern scanner resolves
ScannerTypes == {EMAIL, TELEPHONE}

\* C12: the pattern scanner uses the registry of the entity spans. The
\* pseudonym returned for every email and phone match is the entry of
\* self.correspondences under the match's key; and while every resolve
\* call made on the registry was in consistent mode, two matches of one
\* kind, in the same call or in different calls, have the same pseudonym
\* if and only if their matched texts are equal ignoring case.
C12_ScannerSharesRegistry ==
    /\ \A a \in resolved :
          a.etype \in ScannerTypes =>
             /\ RegistryKey(a.etype, a.original) \in DOMAIN correspondences
             /\ correspondences[RegistryKey(a.etype, a.original)] = a.result
    /\ (\A r \in resolved : ~r.placeholders) =>
          \A a, b \in resolved :
             (a.etype \in ScannerTypes /\ a.etype = b.etype) =>
                (a.result = b.result
                    <=> Lower(a.original) = Lower(b.original))

\* C12 witness: over two consistent-mode calls the scanner matched two
\* addresses that differ only in case, which share a pseudonym, and a
\* third address, which has another.
C12_Witness ==
    /\ ncalls = 2
    /\ pc = "done"
    /\ \A r \in resolved : ~r.placeholders
    /\ \E a, b, c \in resolved :
          /\ a.etype = EMAIL /\ b.etype = EMAIL /\ c.etype = EMAIL
          /\ a.original # b.original
          /\ Lower(a.original) = Lower(b.original)
          /\ a.result = b.result
          /\ Lower(c.original) # Lower(a.original)
          /\ c.result # a.result

\* the locals of the running call after the loop has processed the first
\* idx - 1 spans and nothing else has touched them
SplicedOnly ==
    RunLoop([reg |-> [corr |-> start_registry.corr,
                      cnt |-> start_registry.cnt, calls |-> {}],
             pseudonymized_text |-> text, offset |-> 0,
             entities_found |-> <<>>],
            text, SubSeq(ents, 1, idx - 1), config, 1)

\* C13: the pattern scanner runs strictly after the last entity splice.
\* When a call has reached the scanner, no span is left to process; while
\* the loop runs, the text and the offset are those the splices alone
\* give and no e-mail or phone entry or counter has changed; and a step
\* of the scanner changes neither the offset nor the log nor the loop
\* position, so the offset is never applied to a text the scanner changed.
C13_ScannerAfterSpans ==
    /\ [](pc \in {"phones", "done"} => idx > Len(ents))
    /\ [](pc = "loop" =>
            /\ \E l \in {SplicedOnly} :
                  /\ pseudonymized_text = l.pseudonymized_text
                  /\ offset = l.offset
            /\ \A t \in ScannerTypes :
                  /\ KeysOfType(correspondences, t)
                        = KeysOfType(start_registry.corr, t)
                  /\ counters[CounterOf(t)] = start_registry.cnt[CounterOf(t)])
    /\ [][(pc' \in {"phones", "done"} /\ pc # "done") =>
            (offset' = offset /\ entities_found' = entities_found
                /\ idx' = idx)]_vars

\* C13 witness: a call has returned in which a span was spliced with a
\* replacement longer than the original and the scanner then replaced an
\* e-mail address in the rewritten text.
C13_Witness ==
    /\ pc = "done"
    /\ result.returned
    /\ Len(result.entities) >= 1
    /\ offset > 0
    /\ KeysOfType(correspondences, EMAIL)
          # KeysOfType(start_registry.corr, EMAIL)

(***************************************************************************)
(* Properties of the training-data generator (SpecGen).                    *)
(***************************************************************************)
\* generate_training_data(1) has just returned on the one template
\* "{PERSON} travaille chez {ORG} depuis janvier." with
\* persons = ["Jean Dupont"] and orgs = ["Microsoft"]
ScenarioGenerated ==
    /\ gen_pc = "returned"
    /\ num_samples = 1
    /\ context_templates = <<TplScenario>>
    /\ person_names = <<JeanDupont>>
    /\ org_names = <<Microsoft>>

\* "Jean Dupont travaille chez Microsoft depuis janvier."
ScenarioText == <<"J","e","a","n"," ","D","u","p","o","n","t"," ","t","r","a","v","a","i","l","l","e"," ","c","h","e","z"," ","M","i","c","r","o","s","o","f","t"," ","d","e","p","u","i","s"," ","j","a","n","v","i","e","r",".">>

\* C14 (as claimed): the scenario yields the text with the spans
\* [(0,12,"PERSON"), (27,36,"ORG")].
C14_CoverageAsClaimed ==
    ScenarioGenerated =>
        generated_data =
            <<[text |-> ScenarioText,
               entities |-> <<<<0, 12, L_PERSON>>, <<27, 36, L_ORG>>>>]>>

\* C14 (amended): the scenario yields the one example
\* "Jean Dupont travaille chez Microsoft depuis janvier." with the spans
\* [(0,11,"PERSON"), (27,36,"ORG")], in ascending order of start.
C14_Coverage ==
    ScenarioGenerated =>
        generated_data =
            <<[text |-> ScenarioText,
               entities |-> <<<<0, 11, L_PERSON>>, <<27, 36, L_ORG>>>>]>>

\* C14 witness: the scenario has returned its example.
C14_Witness == ScenarioGenerated /\ Len(generated_data) = 1

\* C15 (as claimed): in every example generate_training_data has
\* accepted, text[start:end] of every span is the value that was inserted
\* for it.
C15_SpanTextMatches ==
    \A i \in DOMAIN training_data :
        \A j \in DOMAIN example_values[i] :
            PySlice(training_data[i].text,
                    example_values[i][j][1], example_values[i][j][2])
                = example_values[i][j][4]

\* C16 (as claimed): in every accepted example the spans are pairwise
\* non-overlapping: in the returned order, the end of a span is not
\* greater than the start of the next.
C16_SpansDisjoint ==
    \A i \in DOMAIN training_data :
        \A j \in 1..(Len(training_data[i].entities) - 1) :
            training_data[i].entities[j][2]
                <= training_data[i].entities[j + 1][1]

\* C17: in every accepted example, and so in what the call returns, the
\* span list is in ascending order of start.
C17_SpansSorted ==
    \A i \in DOMAIN training_data :
        \A j \in 1..(Len(training_data[i].entities) - 1) :
            training_data[i].entities[j][1]
                <= training_data[i].entities[j + 1][1]

\* C17 witness: a returned example whose ORG span, collected after its
\* PERSON span, comes first in the list.
C17_Witness ==
    /\ gen_pc = "returned"
    /\ \E i \in DOMAIN generated_data :
          /\ Len(generated_data[i].entities) = 2
          /\ generated_data[i].entities[1][3] = L_ORG
          /\ generated_data[i].entities[2][3] = L_PERSON
          /\ generated_data[i].entities[1][1]
                < generated_data[i].entities[2][1]

\* the pool that fills a placeholder token
PoolFor(token) ==
    CASE token = PH_PERSON -> person_names
      [] token = PH_ORG -> org_names
      [] token = PH_LOC -> location_names

\* C18: empty-pool rejection. While the pool of a placeholder kind is
\* empty, no accepted example was built from a template that contains
\* the token of that kind, whatever the count asked for and the other
\* pools; and what the call returns is the list of accepted examples.
C18_EmptyPoolRejected ==
    /\ \A token \in Placeholders :
          PoolFor(token) = <<>> =>
             \A i \in DOMAIN training_data :
                ~Contains(example_templates[i], token)
    /\ gen_pc = "returned" => generated_data = training_data

\* C18 witness: a call has returned with the location pool empty and the
\* other pools filled, on templates of which only the one with {LOC} can
\* be rejected, and a draw was rejected.
C18_Witness ==
    /\ gen_pc = "returned"
    /\ location_names = <<>>
    /\ person_names # <<>>
    /\ org_names # <<>>
    /\ context_templates = <<TplScenario, TplInterleaved, TplContact>>
    /\ rejected >= 1
    /\ Len(generated_data) >= 1

\* C19: validation. Every accepted example has a text with none of the
\* tokens {PERSON}, {ORG}, {LOC} and a non-empty span list, and no
\* accepted example was drawn from a template without a placeholder.
C19_Validation ==
    \A i \in DOMAIN training_data :
        /\ \A token \in Placeholders :
              ~Contains(training_data[i].text, token)
        /\ training_data[i].entities # <<>>
        /\ \E token \in Placeholders :
              Contains(example_templates[i], token)

\* C19 witness: a call has returned on the templates "{ORG} {PERSON}" and
\* "Bonjour." with both pools filled: it accepted an example and dropped
\* a draw, which can only be one of "Bonjour.".
C19_Witness ==
    /\ gen_pc = "returned"
    /\ context_templates = <<TplInterleaved, TplPlain>>
    /\ person_names # <<>>
    /\ org_names # <<>>
    /\ rejected >= 1
    /\ Len(generated_data) >= 1

\* C20: exactly num_samples draws, no retry. The draws made never exceed
\* the count asked for; each finished iteration either accepted or
\* rejected its draw; and when the call returns it has made exactly
\* num_samples draws and returns num_samples minus the rejected draws
\* examples, so at most num_samples.
C20_NoRetry ==
    /\ gen_pc \in {"for", "person", "org", "loc", "validate", "returned"} =>
          /\ draws <= num_samples
          /\ Len(training_data) + rejected = sample
          /\ draws = IF gen_pc \in {"for", "returned"}
                     THEN sample ELSE sample + 1
    /\ gen_pc = "returned" =>
          /\ draws = num_samples
          /\ Len(generated_data) = num_samples - rejected
          /\ Len(generated_data) <= num_samples

\* C20 witness: a call for two examples has returned one, having rejected
\* one draw.
C20_Witness ==
    /\ gen_pc = "returned"
    /\ num_samples = 2
    /\ rejected = 1
    /\ Len(generated_data) = 1

\* a generate_training_data call is between its first and its last statement
Running == gen_pc \in {"for", "person", "org", "loc", "validate"}

\* no value of the three pools holds a placeholder token
TokenFree(pool) ==
    \A k \in DOMAIN pool : \A token \in Placeholders :
        ~Contains(pool[k], token)
NoTokenInPools ==
    TokenFree(person_names) /\ TokenFree(org_names)
        /\ TokenFree(location_names)

\* C21: termination. Every generate_training_data call that has started
\* returns, whatever the pools hold, values that contain a placeholder
\* token included.
C21_Terminates == [](Running => <>(gen_pc = "returned"))

\* the same for the calls made with pools whose values hold no token
TokenFreeTerminates ==
    []((Running /\ NoTokenInPools) => <>(gen_pc = "returned"))

\* the person pass has run its body MaxSpans times on a text that still
\* holds "{PERSON}": the while condition of the code is true once more
PersonPassStillLooping ==
    /\ gen_pc = "person"
    /\ Len(current_entities) = MaxSpans
    /\ \A k \in DOMAIN current_entities :
          current_entities[k][3] = L_PERSON
    /\ Contains(current_text, PH_PERSON)
    /\ person_names # <<>>

\* C22: a load that fails aborts only that load. A load_directory_file or
\* load_context_templates call that raises leaves the three pools, the
\* templates and generated_data as they were, and after it a template
\* load, a directory load (while a pool has room) and a generation (while
\* one may still be started) can be made.
C22_FailedLoadKeepsState ==
    /\ [][gen_pc' = "load_failed" =>
            UNCHANGED <<person_names, org_names, location_names,
                        context_templates, generated_data>>]_all_vars
    /\ [](gen_pc = "load_failed" =>
            /\ ENABLED load_context_templates
            /\ (\E entity_type \in {L_PERSON, L_ORG, L_LOC} :
                    Len(PoolOf(entity_type)) < MaxPool)
                  => ENABLED load_directory_file
            /\ generations < MaxGenerations => ENABLED generate_begin)

\* C22 witness: a load has just failed on a generator that holds names,
\* templates and a generated result
C22_Witness ==
    /\ gen_pc = "load_failed"
    /\ person_names # <<>>
    /\ context_templates # <<>>
    /\ generated_data # <<>>

\* the positions at which token stands in t
TokenPositions(t, token) ==
    {p \in 0..(Len(t) - 1) : PySlice(t, p, p + Len(token)) = token}

\* every {PERSON} of t stands before every {ORG}, and every {ORG} before
\* every {LOC}
InPassOrder(t) ==
    /\ \A p \in TokenPositions(t, PH_PERSON) :
          \A o \in TokenPositions(t, PH_ORG) : p < o
    /\ \A o \in TokenPositions(t, PH_ORG) :
          \A l \in TokenPositions(t, PH_LOC) : o < l

\* the same, and every {PERSON} stands before every {LOC} as well
InFullPassOrder(t) ==
    /\ InPassOrder(t)
    /\ \A p \in TokenPositions(t, PH_PERSON) :
          \A l \in TokenPositions(t, PH_LOC) : p < l

\* the pools are those the current or the last generate_training_data call
\* has worked with
PoolsOfTheCall == Running \/ gen_pc = "returned"

\* every span collected so far in the running iteration holds its value in
\* current_text, and every span of accepted example i holds its value in
\* the text of the example
CollectedExact ==
    \A k \in DOMAIN current_values :
        PySlice(current_text, current_values[k][1], current_values[k][2])
            = current_values[k][4]
AcceptedExact(i) ==
    \A j \in DOMAIN example_values[i] :
        PySlice(training_data[i].text,
                example_values[i][j][1], example_values[i][j][2])
            = example_values[i][j][4]

\* C24 (as claimed): with pools that hold no token, a template in which
\* every {PERSON} precedes every {ORG} and every {ORG} precedes every {LOC}
\* gives exact spans: text[start:end] is the inserted value in the final
\* text, and a span recorded in an earlier pass is still exact after each
\* substitution of a later pass.
C24_PassOrderExact ==
    (PoolsOfTheCall /\ NoTokenInPools) =>
        /\ (gen_pc \in {"person", "org", "loc", "validate"}
              /\ InPassOrder(template)) => CollectedExact
        /\ \A i \in DOMAIN training_data :
              InPassOrder(example_templates[i]) => AcceptedExact(i)

\* the same for the templates in which, in addition, every {PERSON}
\* precedes every {LOC}
FullPassOrderExact ==
    (PoolsOfTheCall /\ NoTokenInPools) =>
        /\ (gen_pc \in {"person", "org", "loc", "validate"}
              /\ InFullPassOrder(template)) => CollectedExact
        /\ \A i \in DOMAIN training_data :
              InFullPassOrder(example_templates[i]) => AcceptedExact(i)

\* a template in full pass order with all three kinds has given an example
FullPassOrderExample ==
    /\ gen_pc = "returned"
    /\ NoTokenInPools
    /\ \E i \in DOMAIN training_data :
          /\ example_templates[i] = TplOrdered
          /\ Len(example_values[i]) = 4

\* Auxiliary to C15 and C16 (not the claims): both hold for the examples
\* of "{PERSON} travaille chez {ORG} depuis janvier.", whose placeholders
\* stand in the order of the passes, when the pools hold no token.
SpansExactInPassOrder ==
    (PoolsOfTheCall /\ NoTokenInPools) =>
        \A i \in DOMAIN training_data :
            example_templates[i] = TplScenario =>
                /\ AcceptedExact(i)
                /\ \A j \in 1..(Len(training_data[i].entities) - 1) :
                      training_data[i].entities[j][2]
                          <= training_data[i].entities[j + 1][1]

\* the three pools hold names, templates are loaded and each holds a
\* placeholder, and no name holds a token
AllResolvable ==
    /\ person_names # <<>>
    /\ org_names # <<>>
    /\ location_names # <<>>
    /\ context_templates # <<>>
    /\ \A k \in DOMAIN context_templates :
          \E token \in Placeholders : Contains(context_templates[k], token)
    /\ NoTokenInPools

\* C25: full yield. When the three pools are non-empty, every loaded
\* template holds a placeholder and no pool value holds a token, a call
\* generate_training_data(n) returns exactly n examples, and what it
\* returns is what generated_data holds afterwards, whatever an earlier
\* generation had stored there.
C25_FullYield ==
    /\ [](gen_pc = "returned" =>
            /\ generated_data = training_data
            /\ AllResolvable => Len(training_data) = num_samples)
    /\ [][(gen_pc = "for" /\ gen_pc' = "returned") =>
            generated_data' = training_data]_all_vars

\* C25 witness: with such pools and templates a second call, asked for
\* one example, has returned it over the result of the first
C25_Witness ==
    /\ gen_pc = "returned"
    /\ AllResolvable
    /\ generations = 2
    /\ num_samples = 1
    /\ Len(generated_data) = 1

\* the spans of doc.ents the loop has rewritten, in the order of the loop
AppliedSpans ==
    SelectSeq(ents, LAMBDA e : should_mask(entity_mapping(e.label_), config))

\* t with the spans es (ascending, apart) replaced by the replacements of
\* log, read from character from: the characters between the spans are
\* those of t
RECURSIVE Rebuild(_, _, _, _)
Rebuild(t, es, log, from) ==
    IF es = <<>> THEN SliceFrom(t, from)
    ELSE PySlice(t, from, Head(es).start_char)
            \o Head(log).replacement
            \o Rebuild(t, Tail(es), Tail(log), Head(es).end_char)

\* C26: frame of the rewriting loop. After the loop over spans that come
\* in ascending order of start with the rewritten ones pairwise apart,
\* replacement i stands in the rewritten text at start_i plus the sum of
\* the length deltas of the spans rewritten before it, and the text is the
\* original with exactly those ranges replaced: every other character is
\* kept, in order.
C26_SpliceFrame ==
    (/\ LoopDone
     /\ Ascending(ents)
     /\ NonOverlapping(ents, Masked(ents, config))) =>
        /\ Len(entities_found) = Len(AppliedSpans)
        /\ \A k \in DOMAIN entities_found :
              \E at \in {AppliedSpans[k].start_char
                           + SumDeltas(SubSeq(entities_found, 1, k - 1))} :
                 PySlice(pseudonymized_text, at,
                         at + Len(entities_found[k].replacement))
                    = entities_found[k].replacement
        /\ pseudonymized_text = Rebuild(text, AppliedSpans, entities_found, 0)

\* C26 witness: the loop has rewritten two such spans, the first by a
\* replacement of another length, with text between them and after
C26_Witness ==
    /\ LoopDone
    /\ Ascending(ents)
    /\ NonOverlapping(ents, Masked(ents, config))
    /\ Len(entities_found) = 2
    /\ Len(entities_found[1].replacement) # Len(entities_found[1].original)
    /\ AppliedSpans[1].end_char < AppliedSpans[2].start_char
    /\ AppliedSpans[2].end_char < Len(text)

\* two resolve calls were made on the same registry key
SameKey(a, b) ==
    RegistryKey(a.etype, a.original) = RegistryKey(b.etype, b.original)

\* C27: an entry keeps the pseudonym of the mode that created it. When a
\* key was first resolved in one mode and is resolved again in the other,
\* the later call finds the entry and returns its value: "[TYPE]" for a
\* key created in placeholder mode, the counter pseudonym for a key
\* created in consistent mode; and a step whose resolve calls all found
\* their entry advances no counter.
C27_ModeOfCreation ==
    /\ [](\A a, b \in resolved :
            (SameKey(a, b) /\ a.fresh /\ a.placeholders # b.placeholders) =>
               /\ ~b.fresh
               /\ b.result = a.result
               /\ a.result = IF a.placeholders
                             THEN PlaceholderPseudonym(a.etype)
                             ELSE CounterPseudonym(a.etype, a.num))
    /\ [][(\A c \in resolved' \ resolved : ~c.fresh)
            => counters' = counters]_all_vars

\* C27 witness: a key created in placeholder mode was resolved again by a
\* call in consistent mode
C27_Witness ==
    \E a, b \in resolved :
        /\ SameKey(a, b)
        /\ a.fresh /\ a.placeholders
        /\ ~b.placeholders

\* the converse case: a key created in consistent mode was resolved again
\* by a call in placeholder mode
CounterEntryMetInPlaceholderMode ==
    \E a, b \in resolved :
        /\ SameKey(a, b)
        /\ a.fresh /\ ~a.placeholders
        /\ b.placeholders

\* type + "_" + lower(original) of a log entry
LogKey(entry) == entry.type \o <<"_">> \o Lower(entry.original)

\* C28: the returned log agrees with the returned registry. In every
\* returned dict, each entry of 'entities' has its replacement stored in
\* 'correspondences' under type + "_" + lower(original), and
\* 'correspondences' holds every entry the registry had when the call
\* began, with the same value.
C28_LogAgreesWithRegistry ==
    result.returned =>
        /\ \A k \in DOMAIN result.entities :
              /\ LogKey(result.entities[k]) \in DOMAIN result.correspondences
              /\ result.correspondences[LogKey(result.entities[k])]
                    = result.entities[k].replacement
        /\ \A key \in DOMAIN start_registry.corr :
              /\ key \in DOMAIN result.correspondences
              /\ result.correspondences[key] = start_registry.corr[key]

\* C28 witness: a second call has returned a log with an entry for a key
\* the first call created and an entry for a key of its own
C28_Witness ==
    /\ result.returned
    /\ ncalls = 2
    /\ \E j, k \in DOMAIN result.entities :
          /\ LogKey(result.entities[j]) \in DOMAIN start_registry.corr
          /\ LogKey(result.entities[k]) \notin DOMAIN start_registry.corr

\* the handlers on the stack that are inside a pseudonymize call
InCall == {i \in DOMAIN host_stack : host_stack[i].at = "pseudonymize"}

\* C23: single writer. In the window at most one process_file is inside
\* its pseudonymize call, and it is the running handler; while it is, no
\* other handler starts; and the resolve calls of one process_file are
\* never separated by a resolve call of another.
C23_SingleWriter ==
    /\ [](/\ Cardinality(InCall) <= 1
          /\ InCall # {} => InCall = {Len(host_stack)})
    /\ [](\A i, j, k \in DOMAIN resolve_log :
            (i < j /\ j < k /\ resolve_log[i].doc = resolve_log[k].doc)
                => resolve_log[j].doc = resolve_log[i].doc)
    /\ [][InCall # {} => Len(host_stack') <= Len(host_stack)]_all_vars

\* C23 witness: a process_file that was started from within the update()
\* of another has made its two resolve calls, and the outer one, whose
\* call began after the inner returned, has made its two
C23_Witness ==
    \E i, j \in DOMAIN resolve_log :
        /\ j = i + 2
        /\ resolve_log[i].doc > resolve_log[j].doc
        /\ resolve_log[i + 1].doc = resolve_log[i].doc
        /\ j + 1 \in DOMAIN resolve_log
        /\ resolve_log[j + 1].doc = resolve_log[j].doc

\* the fine-tuner methods start_training called in run r, in call order
StepsOf(r) == SelectSeq(tr_log, LAMBDA e : e.run = r)

StepOrder ==
    <<"load_base_model", "prepare_training_data", "fine_tune", "save_model">>

\* the running handler is a start_training that went past its three tests
RunOnTop ==
    IF tr_stack = <<>> THEN FALSE
    ELSE TrTop.handler = "start_training" /\ TrTop.started

\* C29: start_training. The fine-tuner methods are called only by a
\* start_training that found generated data, an output path and a fine
\* tuner, and within one run they are load_base_model,
\* prepare_training_data, fine_tune, save_model in this order, as far as
\* the run gets; a start_training that misses one of the three returns
\* with the progress bar and both buttons as they were; and when a run
\* returns, after success or failure, both buttons are enabled.
C29_StartTraining ==
    /\ [][tr_runs' # tr_runs =>
            IF tr_generated > 0 /\ output_model_path /\ fine_tuner # 0
            THEN /\ tr_stack'[Len(tr_stack')].started
                 /\ tr_stack'[Len(tr_stack')].at = "update_10"
            ELSE /\ ~tr_stack'[Len(tr_stack')].started
                 /\ UNCHANGED <<progress, generate_button, train_button>>
         ]_all_vars
    /\ [][(tr_stack # <<>> /\ ~RunOnTop /\ Len(tr_stack') < Len(tr_stack)
             /\ TrTop.handler = "start_training") =>
            UNCHANGED <<progress, generate_button, train_button>>]_all_vars
    /\ [][tr_log' # tr_log => RunOnTop]_all_vars
    /\ [](\A r \in 1..MaxRuns :
            /\ Len(StepsOf(r)) <= Len(StepOrder)
            /\ \A k \in DOMAIN StepsOf(r) : StepsOf(r)[k].step = StepOrder[k])
    /\ [][(RunOnTop /\ Len(tr_stack') < Len(tr_stack)) =>
            generate_button' = "normal" /\ train_button' = "normal"]_all_vars

\* C29 witness: two runs have returned, one that failed before its fourth
\* step and one that called all four; the buttons are enabled
C29_Witness ==
    /\ tr_stack = <<>>
    /\ tr_runs = 2
    /\ \E r \in 1..2 :
          /\ Len(StepsOf(r)) \in 1..3
          /\ Len(StepsOf(3 - r)) = 4
    /\ progress \in {0, 100}
    /\ generate_button = "normal"
    /\ train_button = "normal"

\* a start_training that went past its tests has not returned yet
RunInProgress ==
    \E i \in DOMAIN tr_stack :
        tr_stack[i].handler = "start_training" /\ tr_stack[i].started

\* C30 (as claimed): no handler that runs during the window.update() calls
\* of a training run replaces self.fine_tuner or the generated data, so in
\* every run save_model is called on the SpacyFineTuner object that
\* fine_tune of that run was called on.
C30_TrainedInstanceSaved ==
    /\ \A i, j \in DOMAIN tr_log :
          (/\ tr_log[i].run = tr_log[j].run
           /\ tr_log[i].step = "fine_tune"
           /\ tr_log[j].step = "save_model")
              => tr_log[j].inst = tr_log[i].inst
    /\ \A i \in DOMAIN tr_log :
          RunInProgress => tr_log[i].run # tr_runs
                              \/ tr_log[i].inst = fine_tuner

\* the generated data is not replaced during a run: generate_data cannot
\* start while the run holds the generate button disabled
GeneratedDataKeptDuringRun ==
    [][RunInProgress => tr_generated' = tr_generated]_all_vars

\* a run has trained one object and then called save_model on another,
\* which has no model: the run has failed and the trained model is not saved
TrainedModelLost ==
    \E i, j \in DOMAIN tr_log :
        /\ tr_log[i].run = tr_log[j].run
        /\ tr_log[i].step = "fine_tune"
        /\ tr_log[j].step = "save_model"
        /\ tr_log[j].inst # tr_log[i].inst
        /\ tuners[tr_log[i].inst].trained
        /\ ~tuners[tr_log[j].inst].nlp
        /\ progress = 0
====
